---------------------------- MODULE Spec2Model ----------------------------
(***************************************************************************)
(* Model of the ingestion / deduplication / audio core of the AI news      *)
(* service: newsStorage (merge engine and file backend), newsCollector     *)
(* (collection runs and the in-memory index), audioService (on-demand      *)
(* speech synthesis) and the audio endpoint of the HTTP server.            *)
(*                                                                         *)
(* Time is counted in hours.  A timestamp (collectedAt, file mtime, cache  *)
(* set time) is the value of the clock when it was taken.                  *)
(***************************************************************************)
EXTENDS Integers, Sequences, FiniteSets, TLC

VARIABLES
    now,               \* Date.now(), in hours
    existingArticles,  \* argument of a direct mergeArticlesWithDeduplication call
    newArticles,       \* argument of a direct mergeArticlesWithDeduplication call
    mergeResult,       \* what that call returned
    mpc,               \* "call": arguments ready, "done": mergeResult is valid
    mRound,            \* number of merge calls made so far
    mode,              \* getDevConfig().mode: "local" or "supabase"
    newsStore,         \* the NodeCache entry of the category: articles and expiry time
    file,              \* the category's JSON file under data/articles
    db,                \* the rows of the Supabase articles table
    runPc,             \* where each collectAllNews run stands
    runItems,          \* the new raw articles of each run and what became of them
    runMerged,         \* the merged set a run is saving to Supabase
    runsStarted,       \* number of collectAllNews calls so far
    ingested,          \* history: url and collectedAt of every entity a run stored
    audioFiles,        \* data/audio: the mtime of each article's mp3, -1 when there is none
    sbObjects,         \* the article ids with an object in the Supabase audio bucket
    reqPc,             \* where each GET /api/v1/audio/:articleId request stands
    reqId,             \* the article id each request asks for
    reqSynth,          \* what the speech synthesis answered to each request
    reqResult,         \* the response of each request
    genCalls,          \* number of openai.audio.speech.create calls per article id
    requestsStarted,   \* number of audio requests so far
    generatedOk,       \* history: the article ids whose audio was generated successfully
    csec,              \* Date.now() of the request cache, in seconds
    rcache,            \* requestCache: the NodeCache entry under each md5 key
    lastSet,           \* history: the latest requestCache.set call
    lastGet,           \* the requestCache.get call that was just made and what it returned
    setLog,            \* history: the contexts of the set calls
    cacheOps,          \* number of requestCache set, delete and clear calls so far
    apiPc,             \* where each POST /api/v1/news request stands
    apiReq,            \* the body, caller address and cache malfunction of each request
    apiCached,         \* what requestCache.get answered to each request
    apiResp,           \* the response sent to each request
    handlerRuns,       \* number of times the route handler ran for each request
    apiStarted,        \* number of news requests so far
    catStore,          \* newsStore: the NodeCache entry of each configured category
    catFile,           \* the JSON file of each configured category
    fanPc,             \* where each collectAllNews call over the categories stands
    fanWork,           \* collectNewsForCategory of each call: its position and result
    fanIndex,          \* the loop index of a call that awaits saveArticlesToSupabase
    fanSaving,         \* the merged set that call is saving
    fanLog,            \* history: what each call did for each category, and its record
    fanStarted,        \* number of collectAllNews calls over the categories so far
    lastRead,          \* the getStoredNews read that was just made and what it returned
    installed,         \* history: the sets newsStore.set was given, per category
    pageCall,          \* the stored list, page and pageSize of a pagination call
    pageResult,        \* what that call returned
    proc,              \* the server process: "down", or "up" once initializeNewsCollection ran
    scheduled,         \* whether the 15-minute cron job is installed
    boots,             \* number of process starts so far
    totalRuns,         \* statsService: stats.newsCollection.totalRuns
    bootLog,           \* history: what the latest initializeNewsCollection found and did
    handed,            \* history: the batch each run handed to the merge
    enrichCalls,       \* history: number of extraction and summarization calls made
    manual,            \* triggerNewsCollection is awaiting the collectAllNews in flight
    ended,             \* history: how the run that just ended went and what was reported
    currentTrack,      \* AudioProvider: the article of the player, or none
    isPlaying,         \* AudioProvider state
    isLoading,         \* AudioProvider state
    isVisible,         \* AudioProvider state
    audioLoaded,       \* AudioProvider state
    audioSrc,          \* the src of the audio element
    audioPaused,       \* the paused attribute of the audio element
    playCalls,         \* the playTrack calls: where each stands and its play() promise
    playsStarted,      \* number of playTrack calls so far
    lastHide,          \* hidePlayer has just returned
    bPc,               \* where the generateBatchSpeech call stands
    bCount,            \* number of articles handed to generateBatchSpeech
    bPos,              \* the loop variable i of generateBatchSpeech
    bState,            \* what became of the speech request of each article
    bMap,              \* the audioFiles map of the call: positions of the articles in it
    bReturned,         \* the map generateBatchSpeech returned
    currentlyListening,  \* statsService: audioPlayback.currentlyListening
    listeningMinutes,  \* statsService: audioPlayback.totalListeningTimeMinutes
    statCalls          \* number of recordAudioStart and recordAudioEnd calls so far

mergeVars == <<existingArticles, newArticles, mergeResult, mpc, mRound>>
storeVars == <<mode, newsStore, file, db>>
runVars == <<runPc, runItems, runMerged, runsStarted, ingested>>

audioVars == <<audioFiles, sbObjects, reqPc, reqId, reqSynth, reqResult, genCalls,
               requestsStarted, generatedOk>>

cacheVars == <<csec, rcache, lastSet, lastGet, setLog, cacheOps>>

apiVars == <<apiPc, apiReq, apiCached, apiResp, handlerRuns, apiStarted>>

fanVars == <<catStore, catFile, fanPc, fanWork, fanIndex, fanSaving, fanLog,
             fanStarted, lastRead, installed>>

pageVars == <<pageCall, pageResult>>

svcVars == <<proc, scheduled, boots, totalRuns, bootLog, handed, enrichCalls, manual, ended>>

playerVars == <<currentTrack, isPlaying, isLoading, isVisible, audioLoaded, audioSrc,
                audioPaused, playCalls, playsStarted, lastHide>>

batchVars == <<bPc, bCount, bPos, bState, bMap, bReturned>>

statVars == <<currentlyListening, listeningMinutes, statCalls>>

sideVars == <<playerVars, batchVars, statVars>>

webVars == <<cacheVars, apiVars, fanVars, pageVars, svcVars, sideVars, sideVars>>

vars == <<now, mergeVars, storeVars, runVars, audioVars, webVars>>

-----------------------------------------------------------------------------
(* Bounds of the model *)

MaxExisting == 2     \* longest existing set handed to a direct merge call
MaxIncoming == 2     \* longest incoming batch handed to a direct merge call
MaxRounds   == 2     \* merge calls chained in one behaviour
MaxFetch    == 1     \* most raw articles the search provider returns at once
MaxRuns     == 3     \* collectAllNews calls in one behaviour
MaxClock    == 36    \* the clock stops here
MaxRequests == 2     \* audio requests in one behaviour
MaxCacheOps == 2     \* requestCache set, delete and clear calls in one behaviour
MaxCacheClock == 90  \* the request cache clock stops here
MaxApiRequests == 2  \* news requests in one behaviour
MaxFanRuns == 1      \* collectAllNews calls over the categories in one behaviour
MaxPageLen == 6      \* longest stored list handed to the pagination
MaxPage == 5         \* largest page asked for
MaxSvcRuns == 2      \* collectAllNews calls of the running service in one behaviour
MaxBoots == 2        \* process starts in one behaviour
MaxBatch == 4        \* most raw articles the provider returns to the running service
MaxSvcClock == 24    \* the clock of the running service stops here
MaxStatCalls == 8    \* recordAudioStart and recordAudioEnd calls in one behaviour
MaxArticles == 7     \* most articles handed to generateBatchSpeech
MaxPlays == 3        \* most calls of playTrack in one behaviour
MaxPageSize == 4     \* largest pageSize asked for
CacheTickSec == 30   \* seconds the request cache clock advances at once

-----------------------------------------------------------------------------
(* Source URLs and their encodings *)

U1 == "https://a/1"
U2 == "https://a/2"
U3 == "https://example.org/a"
U4 == "https://example.org/b"

Urls == {U1, U2, U3, U4}

\* Buffer.from(url): the UTF-8 bytes of the URL
UrlBytes ==
    [u \in Urls |->
        CASE u = U1 -> <<104,116,116,112,115,58,47,47,97,47,49>>
          [] u = U2 -> <<104,116,116,112,115,58,47,47,97,47,50>>
          [] u = U3 -> <<104,116,116,112,115,58,47,47,101,120,97,109,112,108,
                         101,46,111,114,103,47,97>>
          [] u = U4 -> <<104,116,116,112,115,58,47,47,101,120,97,109,112,108,
                         101,46,111,114,103,47,98>>]

\* crypto.createHash('sha256').update(url).digest('hex').substring(0, 16),
\* as character codes
Sha256Hex16 ==
    [u \in Urls |->
        CASE u = U1 -> <<56,97,51,52,102,97,51,56,101,97,99,56,48,57,56,99>>
          [] u = U2 -> <<97,98,50,55,57,55,57,98,55,97,97,56,99,100,54,100>>
          [] u = U3 -> <<98,53,98,49,48,100,100,48,52,50,57,101,54,57,97,99>>
          [] u = U4 -> <<56,99,97,101,53,101,98,102,50,51,98,98,49,55,51,51>>]

\* the character code of one base64 digit (0..63), '=' for padding (64)
Base64Char(s) ==
    CASE s < 26 -> 65 + s
      [] s >= 26 /\ s < 52 -> 97 + (s - 26)
      [] s >= 52 /\ s < 62 -> 48 + (s - 52)
      [] s = 62 -> 43
      [] s = 63 -> 47
      [] s = 64 -> 61

RECURSIVE Base64(_)
\* Buffer.toString('base64'): three bytes give four digits, the tail is padded
Base64(bytes) ==
    IF Len(bytes) = 0 THEN <<>>
    ELSE IF Len(bytes) = 1 THEN
        << Base64Char(bytes[1] \div 4), Base64Char((bytes[1] % 4) * 16),
           Base64Char(64), Base64Char(64) >>
    ELSE IF Len(bytes) = 2 THEN
        << Base64Char(bytes[1] \div 4),
           Base64Char((bytes[1] % 4) * 16 + bytes[2] \div 16),
           Base64Char((bytes[2] % 16) * 4), Base64Char(64) >>
    ELSE
        << Base64Char(bytes[1] \div 4),
           Base64Char((bytes[1] % 4) * 16 + bytes[2] \div 16),
           Base64Char((bytes[2] % 16) * 4 + bytes[3] \div 64),
           Base64Char(bytes[3] % 64) >>
        \o Base64(SubSeq(bytes, 4, Len(bytes)))

\* [a-zA-Z0-9]
IsAlnum(c) ==
    \/ c >= 48 /\ c <= 57
    \/ c >= 65 /\ c <= 90
    \/ c >= 97 /\ c <= 122

Min(a, b) == IF a < b THEN a ELSE b

\* str.substring(0, n)
Substring0(s, n) == SubSeq(s, 1, Min(n, Len(s)))

-----------------------------------------------------------------------------
(* Identifiers *)

NEWS_CATEGORY == "artificial intelligence"

\* category.replace(/\s+/g, "_").toLowerCase()
CategoryId(category) ==
    CASE category = "artificial intelligence" -> "artificial_intelligence"
      [] OTHER -> category

\* the template string `news_${category}_${hash}`
IdString(category, hash) == [prefix |-> "news", category |-> category, hash |-> hash]

UrlHashLen == 20

\* newsStorage.createArticleId: the first 20 alphanumeric base64 digits of the URL
createArticleId(url, category) ==
    IdString(category,
             Substring0(SelectSeq(Base64(UrlBytes[url]), IsAlnum), UrlHashLen))

\* newsCollector: the consistentId given to a summarized candidate
collectorId(url, category) ==
    IdString(CategoryId(category), Sha256Hex16[url])

NoId == IdString("", <<>>)
NoAudio == [kind |-> "none", id |-> NoId]

\* the ids any part of the program gives to an article
ArticleIds ==
    {createArticleId(u, NEWS_CATEGORY) : u \in Urls}
        \cup {collectorId(u, NEWS_CATEGORY) : u \in Urls}

-----------------------------------------------------------------------------
(* Articles (StoredNewsItem) *)

Titles == {"t1", "t2"}

Article(id, title, url, collectedAt, audioPath) ==
    [id |-> id, title |-> title, url |-> url, category |-> NEWS_CATEGORY,
     collectedAt |-> collectedAt, audioPath |-> audioPath]

RetentionHours == 24

\* articleDate > twentyFourHoursAgo
IsRecent(article, t) == article.collectedAt > t - RetentionHours

Range(s) == {s[i] : i \in 1..Len(s)}

\* sequences of at most n elements of S
SeqUpTo(S, n) == UNION {[1..k -> S] : k \in 0..n}

RECURSIVE InsertDesc(_, _)
\* put article a into a list sorted by collectedAt descending, after every
\* element that does not sort after it (Array.prototype.sort is stable)
InsertDesc(sorted, a) ==
    IF Len(sorted) = 0 THEN <<a>>
    ELSE IF Head(sorted).collectedAt >= a.collectedAt
         THEN <<Head(sorted)>> \o InsertDesc(Tail(sorted), a)
         ELSE <<a>> \o sorted

\* a merge that returns its entries in the order it collected them
SortKeepsOrder(s) == s

RECURSIVE SortByCollectedDesc(_)
\* mergedArticles.sort((a, b) => b.collectedAt - a.collectedAt)
SortByCollectedDesc(s) ==
    IF Len(s) = 0 THEN <<>>
    ELSE InsertDesc(SortByCollectedDesc(SubSeq(s, 1, Len(s) - 1)), s[Len(s)])

\* the entries of the merged array literal of mergeArticlesWithDeduplication
MergedEntries(validExistingArticles, genuinelyNewArticles) ==
    genuinelyNewArticles

RECURSIVE GenuinelyNew(_, _, _)
\* the newArticles.forEach loop: candidates whose URL no existing article has
GenuinelyNew(incoming, existingUrls, category) ==
    IF Len(incoming) = 0 THEN <<>>
    ELSE IF Head(incoming).url \notin existingUrls
         THEN <<[Head(incoming) EXCEPT !.id = createArticleId(Head(incoming).url, category)]>>
              \o GenuinelyNew(Tail(incoming), existingUrls, category)
         ELSE GenuinelyNew(Tail(incoming), existingUrls, category)

\* newsStorage.mergeArticlesWithDeduplication, called at time t
mergeArticlesWithDeduplication(existing, incoming, category, t) ==
    LET existingByUrl == {a.url : a \in Range(existing)}
        validExistingArticles == SelectSeq(existing, LAMBDA a : IsRecent(a, t))
        genuinelyNewArticles == GenuinelyNew(incoming, existingByUrl, category)
        duplicates == SelectSeq(incoming, LAMBDA a : a.url \in existingByUrl)
    IN  [mergedArticles |->
            SortByCollectedDesc(MergedEntries(validExistingArticles, genuinelyNewArticles)),
         newCount |-> Len(genuinelyNewArticles),
         duplicateCount |-> Len(duplicates),
         removedCount |-> Len(existing) - Len(validExistingArticles)]

NoResult == [mergedArticles |-> <<>>, newCount |-> 0, duplicateCount |-> 0,
             removedCount |-> 0]

-----------------------------------------------------------------------------
(* The in-memory index, the file backend and the Supabase table *)

StdTTL == 24

NoEntry == [articles |-> <<>>, expires |-> -1]

\* newsStore.set(category, articles) at time t
StoreSet(articles, t) == [articles |-> articles, expires |-> t + StdTTL]

\* newsStore.get(category) || [] at time t: an expired entry is gone
StoreGet(entry, t) == IF t <= entry.expires THEN entry.articles ELSE <<>>

NoFile == [exists |-> FALSE, articles |-> <<>>]

\* saveArticlesToFile(category, articles, false)
WriteFile(articles) == [exists |-> TRUE, articles |-> articles]

\* loadArticlesFromFile(category) at time t: the articles it returns and the
\* file it leaves (the cleaned version is saved when something was filtered out)
loadArticlesFromFile(f, t) ==
    IF ~f.exists THEN [articles |-> <<>>, file |-> f]
    ELSE LET validArticles == SelectSeq(f.articles, LAMBDA a : IsRecent(a, t))
         IN  [articles |-> validArticles,
              file |-> IF Len(validArticles) # Len(f.articles)
                       THEN WriteFile(validArticles) ELSE f]

\* newsStore.get(category) || [], replaced by the file's articles when empty:
\* the existing set a collection run works with, and the file it leaves
LoadExisting(entry, f, t) ==
    IF Len(StoreGet(entry, t)) = 0
    THEN loadArticlesFromFile(f, t)
    ELSE [articles |-> StoreGet(entry, t), file |-> f]

RECURSIVE FirstById(_, _)
\* saveArticlesToSupabase: the first article of each id
FirstById(articles, seen) ==
    IF Len(articles) = 0 THEN {}
    ELSE IF Head(articles).id \in seen THEN FirstById(Tail(articles), seen)
         ELSE {Head(articles)} \cup FirstById(Tail(articles), seen \cup {Head(articles).id})

\* the row an upsert leaves for article a: toDatabase sends no audio_path for
\* an article without audio, so that column of an existing row is kept
UpsertRow(rows, a) ==
    IF a.audioPath = NoAudio /\ \E old \in rows : old.id = a.id
    THEN [a EXCEPT !.audioPath = (CHOOSE old \in rows : old.id = a.id).audioPath]
    ELSE a

\* supabase.from('articles').upsert(dbArticles, {onConflict: 'id'})
Upsert(rows, articles) ==
    LET unique == FirstById(articles, {})
    IN  {old \in rows : \A a \in unique : a.id # old.id}
            \cup {UpsertRow(rows, a) : a \in unique}

\* the rows of the category in the Supabase table, as a load returns them
CategoryRows(rows) == {row \in rows : row.category = NEWS_CATEGORY}

StoreIdle ==
    /\ mode = "local"
    /\ newsStore = NoEntry
    /\ file = NoFile
    /\ db = {}

-----------------------------------------------------------------------------
(* Audio requests: state *)

Reqs == {1, 2}

\* the article whose audio is requested
RequestIds == {createArticleId(U1, NEWS_CATEGORY)}

\* getAudioFilePath(articleId)
LocalPath(id) == [kind |-> "local", id |-> id]

\* the public URL of articles/<articleId>.mp3 in the audio bucket
SupabaseUrl(id) == [kind |-> "supabase", id |-> id]

NoResponse == [status |-> 0, location |-> NoAudio, generated |-> FALSE]

AudioIdle ==
    /\ audioFiles = [id \in RequestIds |-> -1]
    /\ sbObjects = {}
    /\ reqPc = [q \in Reqs |-> "idle"]
    /\ reqId = [q \in Reqs |-> NoId]
    /\ reqSynth = [q \in Reqs |-> "none"]
    /\ reqResult = [q \in Reqs |-> NoResponse]
    /\ genCalls = [id \in RequestIds |-> 0]
    /\ requestsStarted = 0
    /\ generatedOk = {}

-----------------------------------------------------------------------------
(* getStoredNews: pagination *)

Max(a, b) == IF a > b THEN a ELSE b

\* a rounding that goes down instead of up
CeilFloor(a, b) == a \div b

\* Math.ceil(a / b) for a >= 0 and b > 0
Ceil(a, b) == IF a % b = 0 THEN a \div b ELSE (a \div b) + 1

\* Array.prototype.slice(start, end), indices counted from 0, a negative index
\* counted from the end
Slice(s, start, end) ==
    LET from == IF start < 0 THEN Max(Len(s) + start, 0) ELSE Min(start, Len(s))
        to == IF end < 0 THEN Max(Len(s) + end, 0) ELSE Min(end, Len(s))
    IN  IF from >= to THEN <<>> ELSE SubSeq(s, from + 1, to)

\* the page getStoredNews computes from the stored articles
Paginate(storedArticles, page, pageSize) ==
    LET totalResults == Len(storedArticles)
        totalPages == Ceil(totalResults, pageSize)
        startIndex == (page - 1) * pageSize
        endIndex == startIndex + pageSize
    IN  [articles |-> Slice(storedArticles, startIndex, endIndex),
         pagination |-> [page |-> page, pageSize |-> pageSize,
                         totalResults |-> totalResults, totalPages |-> totalPages,
                         hasNextPage |-> page < totalPages,
                         hasPreviousPage |-> page > 1]]

-----------------------------------------------------------------------------
(* Request cache: values, parameters and key generation *)

\* a response body: an error message, or a page of articles
NoPagination ==
    [page |-> 0, pageSize |-> 0, totalResults |-> 0, totalPages |-> 0,
     hasNextPage |-> FALSE, hasPreviousPage |-> FALSE]
NoBody == [kind |-> "none", message |-> "", articles |-> <<>>, pagination |-> NoPagination]
MessageBody(message) == [NoBody EXCEPT !.kind = "message", !.message = message]
NewsBody(news) ==
    [kind |-> "news", message |-> "", articles |-> news.articles,
     pagination |-> news.pagination]

\* JSON values: a number, an object (a response body) or null
JsonNum(n) == [t |-> "n", n |-> n, o |-> NoBody]
JsonObj(o) == [t |-> "o", n |-> 0, o |-> o]
JsonNull == [t |-> "null", n |-> 0, o |-> NoBody]

\* JavaScript truthiness of a JSON value, as tested by if (cached)
Truthy(v) == v.t = "o" \/ (v.t = "n" /\ v.n # 0)

\* parameter values: a string (its characters), a number, undefined or null
StrV(chars) == [t |-> "s", s |-> chars, n |-> 0]
NumV(n) == [t |-> "n", s |-> <<>>, n |-> n]
NullV == [t |-> "u", s |-> <<>>, n |-> 0]

UpperCase == <<"A","B","C","D","E","F","G","H","I","J","K","L","M",
               "N","O","P","Q","R","S","T","U","V","W","X","Y","Z">>
LowerCase == <<"a","b","c","d","e","f","g","h","i","j","k","l","m",
               "n","o","p","q","r","s","t","u","v","w","x","y","z">>
WhiteSpace == {" ", "\t", "\n", "\r"}

\* String.prototype.toLowerCase on a sequence of characters
ToLowerCase(chars) ==
    [i \in 1..Len(chars) |->
        IF \E j \in 1..Len(UpperCase) : UpperCase[j] = chars[i]
        THEN LowerCase[CHOOSE j \in 1..Len(UpperCase) : UpperCase[j] = chars[i]]
        ELSE chars[i]]

\* String.prototype.trim
RECURSIVE TrimStart(_)
TrimStart(chars) ==
    IF chars # <<>> /\ Head(chars) \in WhiteSpace THEN TrimStart(Tail(chars)) ELSE chars

RECURSIVE TrimEnd(_)
TrimEnd(chars) ==
    IF chars # <<>> /\ chars[Len(chars)] \in WhiteSpace
    THEN TrimEnd(SubSeq(chars, 1, Len(chars) - 1))
    ELSE chars

Trim(chars) == TrimEnd(TrimStart(chars))

\* the string made of a sequence of characters
RECURSIVE Join(_)
Join(chars) == IF chars = <<>> THEN "" ELSE Head(chars) \o Join(Tail(chars))

\* Array.prototype.sort on the parameter names the callers use
KeyOrder == <<"category", "method", "page", "pageSize", "path">>

ParamKeys(params) == {params[i].k : i \in 1..Len(params)}
ParamValue(params, key) == params[CHOOSE i \in 1..Len(params) : params[i].k = key].v

\* normalizeParams: keys in sorted order, undefined and null dropped, strings
\* lowercased and trimmed
normalizeParams(params) ==
    LET sorted == SelectSeq(KeyOrder, LAMBDA key : key \in ParamKeys(params))
        kept == SelectSeq(sorted, LAMBDA key : ParamValue(params, key).t # "u")
    IN  [i \in 1..Len(kept) |->
            LET v == ParamValue(params, kept[i])
            IN  [k |-> kept[i],
                 v |-> IF v.t = "s" THEN StrV(Trim(ToLowerCase(v.s))) ELSE v]]

\* JSON.stringify of a normalized parameter object
StringifyValue(v) == IF v.t = "s" THEN "\"" \o Join(v.s) \o "\"" ELSE ToString(v.n)

RECURSIVE StringifyMembers(_)
StringifyMembers(np) ==
    IF np = <<>> THEN ""
    ELSE "\"" \o Head(np).k \o "\":" \o StringifyValue(Head(np).v)
         \o (IF Len(np) > 1 THEN "," ELSE "") \o StringifyMembers(Tail(np))

\* the caller context: absent (<<>>) or a string
NoContext == <<>>

\* userContext || 'anonymous'
UserOf(userContext) ==
    IF userContext = NoContext \/ userContext[1] = "" THEN "anonymous" ELSE userContext[1]

\* JSON.stringify(keyData)
KeyString(endpoint, params, userContext) ==
    "{\"endpoint\":\"" \o endpoint \o "\",\"params\":{"
    \o StringifyMembers(normalizeParams(params))
    \o "},\"user\":\"" \o UserOf(userContext) \o "\"}"

\* crypto.createHash('md5').update(keyString).digest('hex'), on the key strings
\* the callers produce
Md5(keyString) ==
    CASE keyString = "{\"endpoint\":\"/api/v1/news\",\"params\":{\"category\":\"ai\",\"page\":1},\"user\":\"anonymous\"}"
           -> "8817c7a2ead1899334b74a815140fb8e"
      [] keyString = "{\"endpoint\":\"/api/v1/news\",\"params\":{\"category\":\"ai\",\"page\":1},\"user\":\"10.0.0.1\"}"
           -> "1d775a893b3695e64dbaeeee2e007023"
      [] keyString = "{\"endpoint\":\"/api/v1/news\",\"params\":{\"category\":\"ai\",\"page\":2},\"user\":\"anonymous\"}"
           -> "3fd62445fe718ef81c4b078f39a5a369"
      [] keyString = "{\"endpoint\":\"/api/v1/news\",\"params\":{\"category\":\"ai\",\"page\":2},\"user\":\"10.0.0.1\"}"
           -> "480b5921ebe20ebd6e6d8b0477793d35"
      [] keyString = "{\"endpoint\":\"/api/v1/news\",\"params\":{\"method\":\"post\",\"page\":1,\"pageSize\":6,\"path\":\"/api/v1/news\"},\"user\":\"10.0.0.1\"}"
           -> "83db9499f95665e56a7ba6305f958bcc"
      [] keyString = "{\"endpoint\":\"/api/v1/news\",\"params\":{\"method\":\"post\",\"page\":1,\"pageSize\":21,\"path\":\"/api/v1/news\"},\"user\":\"10.0.0.1\"}"
           -> "9f45c645fdacac929a936e9b73a3357b"
      [] keyString = "{\"endpoint\":\"/api/v1/news\",\"params\":{\"method\":\"post\",\"page\":2,\"pageSize\":6,\"path\":\"/api/v1/news\"},\"user\":\"10.0.0.1\"}"
           -> "1ea680e288afb879539e628ea5fcf866"
      [] keyString = "{\"endpoint\":\"/api/v1/news\",\"params\":{\"method\":\"post\",\"page\":2,\"pageSize\":21,\"path\":\"/api/v1/news\"},\"user\":\"10.0.0.1\"}"
           -> "2df4a010a87b164dda753ff9a1aadff8"
      [] keyString = "{\"endpoint\":\"/api/v1/news\",\"params\":{\"category\":\"artificial intelligence\",\"method\":\"post\",\"page\":1,\"pageSize\":6,\"path\":\"/api/v1/news\"},\"user\":\"10.0.0.1\"}"
           -> "46cddc0dfd7bcc0e5efecbf7cc888e3b"
      [] keyString = "{\"endpoint\":\"/api/v1/news\",\"params\":{\"category\":\"artificial intelligence\",\"method\":\"post\",\"page\":1,\"pageSize\":21,\"path\":\"/api/v1/news\"},\"user\":\"10.0.0.1\"}"
           -> "2ab3f4672caf2653636eccef3df83743"
      [] keyString = "{\"endpoint\":\"/api/v1/news\",\"params\":{\"category\":\"artificial intelligence\",\"method\":\"post\",\"page\":2,\"pageSize\":6,\"path\":\"/api/v1/news\"},\"user\":\"10.0.0.1\"}"
           -> "4892a2c4e504d6fd8f3327bf81ad8b23"
      [] keyString = "{\"endpoint\":\"/api/v1/news\",\"params\":{\"category\":\"artificial intelligence\",\"method\":\"post\",\"page\":2,\"pageSize\":21,\"path\":\"/api/v1/news\"},\"user\":\"10.0.0.1\"}"
           -> "7f132c3ab64d1bd5dba515bae1fdeeee"

Md5Digests ==
    {"8817c7a2ead1899334b74a815140fb8e",
     "1d775a893b3695e64dbaeeee2e007023",
     "3fd62445fe718ef81c4b078f39a5a369",
     "480b5921ebe20ebd6e6d8b0477793d35",
     "83db9499f95665e56a7ba6305f958bcc",
     "9f45c645fdacac929a936e9b73a3357b",
     "1ea680e288afb879539e628ea5fcf866",
     "2df4a010a87b164dda753ff9a1aadff8",
     "46cddc0dfd7bcc0e5efecbf7cc888e3b",
     "2ab3f4672caf2653636eccef3df83743",
     "4892a2c4e504d6fd8f3327bf81ad8b23",
     "7f132c3ab64d1bd5dba515bae1fdeeee"}

\* generateCacheKey
generateCacheKey(endpoint, params, userContext) ==
    Md5(KeyString(endpoint, params, userContext))

\* new RequestCacheService(60)
DefaultTTL == 60

NoCacheEntry == [present |-> FALSE, v |-> JsonNull, t |-> 0]
NoSet == [live |-> FALSE, endpoint |-> "", params |-> <<>>, ctx |-> NoContext,
          v |-> JsonNull, ttl |-> 0, at |-> 0]
NoGet == [made |-> FALSE, endpoint |-> "", params |-> <<>>, ctx |-> NoContext,
          result |-> JsonNull, at |-> 0]

CacheIdle ==
    /\ csec = 0
    /\ rcache = [key \in Md5Digests |-> NoCacheEntry]
    /\ lastSet = NoSet
    /\ lastGet = NoGet
    /\ setLog = {}
    /\ cacheOps = 0

\* new RequestCacheService(60) is used with ttl: 60 by newsApiCacheMiddleware
NewsApiTTL == 60

ApiReqs == {1, 2}

NoRequest ==
    [body |-> [category |-> NullV, page |-> NullV, pageSize |-> NullV],
     ip |-> NoContext, fault |-> "none", faulted |-> FALSE]

ApiIdle ==
    /\ apiPc = [q \in ApiReqs |-> "idle"]
    /\ apiReq = [q \in ApiReqs |-> NoRequest]
    /\ apiCached = [q \in ApiReqs |-> JsonNull]
    /\ apiResp = [q \in ApiReqs |-> [status |-> 0, body |-> JsonNull]]
    /\ handlerRuns = [q \in ApiReqs |-> 0]
    /\ apiStarted = 0

\* the list collectAllNews goes over; the repository configures the first
\* category only, the second one stands for any further entry of the list
NEWS_CATEGORIES == <<NEWS_CATEGORY, "technology">>

Cats == {NEWS_CATEGORIES[k] : k \in 1..Len(NEWS_CATEGORIES)}

FanRuns == {1, 2}

\* collectNewsForCategory before it is called
NoWork == [pc |-> "idle", urls |-> <<>>, articles |-> <<>>]

\* what a collectAllNews call has done so far
NoLog ==
    [failed |-> [c \in Cats |-> "none"], indexUpdated |-> {}, persisted |-> {},
     persistFailed |-> {}, outcome |-> "none"]

NoRead == [made |-> FALSE, category |-> "", articles |-> <<>>]

FanIdle ==
    /\ catStore = [c \in Cats |-> NoEntry]
    /\ catFile = [c \in Cats |-> NoFile]
    /\ fanPc = [r \in FanRuns |-> "idle"]
    /\ fanWork = [r \in FanRuns |-> [c \in Cats |-> NoWork]]
    /\ fanIndex = [r \in FanRuns |-> 0]
    /\ fanSaving = [r \in FanRuns |-> <<>>]
    /\ fanLog = [r \in FanRuns |-> NoLog]
    /\ fanStarted = 0
    /\ lastRead = NoRead
    /\ installed = [c \in Cats |-> {<<>>}]

NoPageCall == [made |-> FALSE, storedArticles |-> <<>>, page |-> 1, pageSize |-> 1]

PageIdle ==
    /\ pageCall = NoPageCall
    /\ pageResult = [articles |-> <<>>, pagination |-> NoPagination]

NoBoot == [done |-> FALSE, persisted |-> {}, indexed |-> {}, immediate |-> FALSE]

\* no hand-over of a collection to the merge has just happened
NoHanded == [run |-> 0, items |-> <<>>, batch |-> <<>>]

\* no run has just ended
NoEnded == [outcome |-> "none", errors |-> 0, trigger |-> "none"]

SvcIdle ==
    /\ proc = "down"
    /\ scheduled = FALSE
    /\ boots = 0
    /\ totalRuns = 0
    /\ bootLog = NoBoot
    /\ handed = NoHanded
    /\ enrichCalls = 0
    /\ manual = FALSE
    /\ ended = NoEnded

\* the play() promise of a playTrack call, and the call slots
PlayCalls == {1, 2}
NoTrack == "none"
NoPlayCall == [pc |-> "idle", track |-> NoTrack, promise |-> "none"]

PlayerIdle ==
    /\ currentTrack = NoTrack
    /\ isPlaying = FALSE
    /\ isLoading = FALSE
    /\ isVisible = FALSE
    /\ audioLoaded = FALSE
    /\ audioSrc = NoTrack
    /\ audioPaused = TRUE
    /\ playCalls = [c \in PlayCalls |-> NoPlayCall]
    /\ playsStarted = 0
    /\ lastHide = FALSE

BatchIdle ==
    /\ bPc = "idle"
    /\ bCount = 0
    /\ bPos = 0
    /\ bState = <<>>
    /\ bMap = {}
    /\ bReturned = {}

StatIdle ==
    /\ currentlyListening = 0
    /\ listeningMinutes = 0
    /\ statCalls = 0

SideIdle == PlayerIdle /\ BatchIdle /\ StatIdle

WebIdle == CacheIdle /\ ApiIdle /\ FanIdle /\ PageIdle /\ SvcIdle /\ SideIdle

-----------------------------------------------------------------------------
(* Collection runs *)

Runs == {1, 2}

CollectUrls == {U1, U2}

RunsIdle ==
    /\ runPc = [r \in Runs |-> "idle"]
    /\ runItems = [r \in Runs |-> <<>>]
    /\ runMerged = [r \in Runs |-> <<>>]
    /\ runsStarted = 0
    /\ ingested = {}

MergeIdle ==
    /\ existingArticles = <<>>
    /\ newArticles = <<>>
    /\ mergeResult = NoResult
    /\ mpc = "idle"
    /\ mRound = 0

\* a raw article that is being enriched
Pending(url) == [url |-> url, state |-> "pending", collectedAt |-> -1]

\* every item of the run becomes an article, whatever its summary did
EveryNewsItem(items, category) ==
    [i \in 1..Len(items) |->
        Article(collectorId(items[i].url, category), "t1", items[i].url,
                items[i].collectedAt, NoAudio)]

\* validNewsItems: the items whose summary was generated
RECURSIVE ValidNewsItems(_, _)
ValidNewsItems(items, category) ==
    IF Len(items) = 0 THEN <<>>
    ELSE IF Head(items).state = "ok"
         THEN <<Article(collectorId(Head(items).url, category), "t1", Head(items).url,
                        Head(items).collectedAt, NoAudio)>>
              \o ValidNewsItems(Tail(items), category)
         ELSE ValidNewsItems(Tail(items), category)

Stamps(articles) == {[url |-> a.url, collectedAt |-> a.collectedAt] : a \in Range(articles)}

\* collectAllNews is called (cron tick, startup or manual trigger) and
\* collectNewsForCategory sends its request to the search provider
StartRun(r) ==
    /\ runPc[r] = "idle"
    /\ runsStarted < MaxRuns
    /\ runsStarted' = runsStarted + 1
    /\ runPc' = [runPc EXCEPT ![r] = "fetching"]
    /\ UNCHANGED <<now, webVars, mergeVars, storeVars, runItems, runMerged, ingested, audioVars>>

\* the search provider answers with rawArticles (none: no articles or an
\* error); the URLs already in the existing set are filtered out
FetchDone(r, rawArticles) ==
    /\ runPc[r] = "fetching"
    /\ LET loaded == IF Len(rawArticles) = 0 THEN [articles |-> <<>>, file |-> file]
                     ELSE LoadExisting(newsStore, file, now)
           existingUrls == {a.url : a \in Range(loaded.articles)}
           newRawArticles == SelectSeq(rawArticles, LAMBDA u : u \notin existingUrls)
       IN  /\ file' = loaded.file
           /\ IF Len(newRawArticles) = 0
              THEN /\ runPc' = [runPc EXCEPT ![r] = "idle"]
                   /\ runItems' = [runItems EXCEPT ![r] = <<>>]
              ELSE /\ runPc' = [runPc EXCEPT ![r] = "enriching"]
                   /\ runItems' = [runItems EXCEPT ![r] =
                            [i \in 1..Len(newRawArticles) |-> Pending(newRawArticles[i])]]
    /\ UNCHANGED <<now, webVars, mergeVars, mode, newsStore, db, runMerged, runsStarted, ingested, audioVars>>

\* the loop body of collectAllNews for the category, entered with the run's
\* new articles: merge with the existing set, update the index, save
StoreResults(r, items) ==
    LET newItems == ValidNewsItems(items, NEWS_CATEGORY)
        loaded == LoadExisting(newsStore, file, now)
        result == mergeArticlesWithDeduplication(loaded.articles, newItems,
                                                 NEWS_CATEGORY, now)
    IN  IF Len(newItems) = 0
        THEN /\ runPc' = [runPc EXCEPT ![r] = "idle"]
             /\ UNCHANGED <<newsStore, file, runMerged, ingested>>
        ELSE /\ newsStore' = StoreSet(result.mergedArticles, now)
             /\ ingested' = ingested \cup Stamps(result.mergedArticles)
             /\ IF mode = "supabase"
                THEN /\ file' = loaded.file
                     /\ runMerged' = [runMerged EXCEPT ![r] = result.mergedArticles]
                     /\ runPc' = [runPc EXCEPT ![r] = "saving"]
                ELSE /\ file' = WriteFile(result.mergedArticles)
                     /\ runPc' = [runPc EXCEPT ![r] = "idle"]
                     /\ UNCHANGED runMerged

\* the summary of item i of run r is generated (ok) or fails; the item is
\* stamped with the current time; when it was the last one the run goes on
\* to store its results
SummaryDone(r, i, ok) ==
    /\ runPc[r] = "enriching"
    /\ i \in 1..Len(runItems[r])
    /\ runItems[r][i].state = "pending"
    /\ LET items == [runItems[r] EXCEPT ![i] =
                        [url |-> runItems[r][i].url,
                         state |-> IF ok THEN "ok" ELSE "failed",
                         collectedAt |-> IF ok THEN now ELSE -1]]
       IN  IF \E j \in 1..Len(items) : items[j].state = "pending"
           THEN /\ runItems' = [runItems EXCEPT ![r] = items]
                /\ UNCHANGED <<runPc, newsStore, file, runMerged, ingested>>
           ELSE /\ runItems' = [runItems EXCEPT ![r] = <<>>]
                /\ StoreResults(r, items)
    /\ UNCHANGED <<now, webVars, mergeVars, mode, db, runsStarted, audioVars>>

\* saveArticlesToSupabase answers: the rows are upserted, or the call failed
SupabaseSaveDone(r, ok) ==
    /\ runPc[r] = "saving"
    /\ db' = IF ok THEN Upsert(db, runMerged[r]) ELSE db
    /\ runPc' = [runPc EXCEPT ![r] = "idle"]
    /\ runMerged' = [runMerged EXCEPT ![r] = <<>>]
    /\ UNCHANGED <<now, webVars, mergeVars, mode, newsStore, file, runItems, runsStarted, ingested, audioVars>>

\* getStoredNews(category, page, pageSize): the index is refilled from the
\* file when it is empty
GetStoredNews ==
    /\ Len(StoreGet(newsStore, now)) = 0
    /\ LET loaded == loadArticlesFromFile(file, now)
       IN  /\ file' = loaded.file
           /\ newsStore' = IF Len(loaded.articles) > 0
                           THEN StoreSet(loaded.articles, now) ELSE newsStore
    /\ UNCHANGED <<now, webVars, mergeVars, mode, db, runVars, audioVars>>

TickHours == 12

\* time passes
Tick ==
    /\ now + TickHours <= MaxClock
    /\ now' = now + TickHours
    /\ UNCHANGED <<webVars, mergeVars, storeVars, runVars, audioVars>>

CollectInit ==
    /\ now = 0
    /\ MergeIdle
    /\ mode \in {"local", "supabase"}
    /\ newsStore = NoEntry
    /\ file = NoFile
    /\ db = {}
    /\ RunsIdle
    /\ AudioIdle
    /\ WebIdle

CollectNext ==
    \/ \E r \in Runs : StartRun(r)
    \/ \E r \in Runs : \E raw \in SeqUpTo(CollectUrls, MaxFetch) : FetchDone(r, raw)
    \/ \E r \in Runs : \E i \in 1..MaxFetch : \E ok \in BOOLEAN : SummaryDone(r, i, ok)
    \/ \E r \in Runs : \E ok \in BOOLEAN : SupabaseSaveDone(r, ok)
    \/ GetStoredNews
    \/ Tick

SpecCollect == CollectInit /\ [][CollectNext]_vars

\* what a reader of the category is served: the index, refilled from the
\* file when empty, in local mode; the table rows in Supabase mode
StoredUrlsAt(t) ==
    IF mode = "supabase" THEN {a.url : a \in db}
    ELSE {a.url : a \in Range(LoadExisting(newsStore, file, t).articles)}

-----------------------------------------------------------------------------
(* Audio requests: GET /api/v1/audio/:articleId and generateAudioOnDemand *)

AudioRetentionHours == 168

Response(status, location, generated) ==
    [status |-> status, location |-> location, generated |-> generated]

\* a check that looks for the mp3 in the wrong place and never finds it
AudioFileExistsWrongPath(id) == FALSE

\* fs.existsSync(getAudioFilePath(articleId))
AudioFileExists(id) == audioFiles[id] # -1

\* the index and the file after getStoredNews(category, 1, 1000) at time t,
\* and the articles it returns
getStoredNews(entry, f, t) ==
    IF Len(StoreGet(entry, t)) > 0
    THEN [articles |-> StoreGet(entry, t), store |-> entry, file |-> f]
    ELSE LET loaded == loadArticlesFromFile(f, t)
         IN  [articles |-> loaded.articles,
              store |-> IF Len(loaded.articles) > 0
                        THEN StoreSet(loaded.articles, t) ELSE entry,
              file |-> loaded.file]

\* articles.findIndex(a => a.id === articleId), 0 when there is none
FindIndex(articles, id) ==
    IF \E i \in 1..Len(articles) : articles[i].id = id
    THEN CHOOSE i \in 1..Len(articles) :
            /\ articles[i].id = id
            /\ \A j \in 1..(i - 1) : articles[j].id # id
    ELSE 0

\* newsStorage.updateArticleAudioPathLocal(articleId, audioPath) at time t:
\* the index and the file it leaves, and whether the article was updated
updateArticleAudioPathLocal(entry, f, id, audioPath, t) ==
    LET loaded == loadArticlesFromFile(f, t)
        articleIndex == FindIndex(loaded.articles, id)
        articles == [loaded.articles EXCEPT ![articleIndex].audioPath = audioPath]
    IN  IF articleIndex > 0
        THEN [updated |-> TRUE, store |-> StoreSet(articles, t), file |-> WriteFile(articles)]
        ELSE [updated |-> FALSE, store |-> entry, file |-> loaded.file]

\* supabaseArticleService.updateArticleAudioPath: update ... where id = articleId
UpdateAudioRow(rows, id, audioPath) ==
    {IF a.id = id THEN [a EXCEPT !.audioPath = audioPath] ELSE a : a \in rows}

\* generateAudioOnDemand up to its first await, for request q: the existing
\* local file is returned, or the speech synthesis is called
EnterGenerate(q, id) ==
    IF AudioFileExists(id)
    THEN /\ reqPc' = [reqPc EXCEPT ![q] = "done"]
         /\ reqResult' = [reqResult EXCEPT ![q] =
                IF mode = "supabase" THEN Response(302, SupabaseUrl(id), TRUE)
                ELSE Response(200, LocalPath(id), TRUE)]
         /\ UNCHANGED <<reqSynth, genCalls>>
    ELSE /\ reqPc' = [reqPc EXCEPT ![q] = "synth"]
         /\ reqSynth' = [reqSynth EXCEPT ![q] = "pending"]
         /\ genCalls' = [genCalls EXCEPT ![id] = @ + 1]
         /\ UNCHANGED reqResult

\* a request for the audio of article id arrives.  Local mode: the article
\* is looked up with getStoredNews, an existing file is streamed, otherwise
\* the audio is generated.  Supabase mode: the article is fetched first.
StartRequest(q, id) ==
    /\ reqPc[q] = "idle"
    /\ requestsStarted < MaxRequests
    /\ requestsStarted' = requestsStarted + 1
    /\ reqId' = [reqId EXCEPT ![q] = id]
    /\ IF mode = "supabase"
       THEN /\ reqPc' = [reqPc EXCEPT ![q] = "lookup"]
            /\ UNCHANGED <<newsStore, file, reqSynth, reqResult, genCalls>>
       ELSE LET read == getStoredNews(newsStore, file, now)
            IN  /\ newsStore' = read.store
                /\ file' = read.file
                /\ IF FindIndex(read.articles, id) = 0
                   THEN /\ reqPc' = [reqPc EXCEPT ![q] = "done"]
                        /\ reqResult' = [reqResult EXCEPT ![q] = Response(404, NoAudio, FALSE)]
                        /\ UNCHANGED <<reqSynth, genCalls>>
                   ELSE IF AudioFileExists(id)
                   THEN /\ reqPc' = [reqPc EXCEPT ![q] = "done"]
                        /\ reqResult' = [reqResult EXCEPT ![q] =
                                            Response(200, LocalPath(id), FALSE)]
                        /\ UNCHANGED <<reqSynth, genCalls>>
                   ELSE EnterGenerate(q, id)
    /\ UNCHANGED <<now, webVars, mergeVars, mode, db, runVars, audioFiles, sbObjects, generatedOk>>

\* Supabase mode: getArticleById answers (found = FALSE: no row or an error)
LookupDone(q, found) ==
    /\ reqPc[q] = "lookup"
    /\ found => \E a \in db : a.id = reqId[q]
    /\ IF ~found
       THEN /\ reqPc' = [reqPc EXCEPT ![q] = "done"]
            /\ reqResult' = [reqResult EXCEPT ![q] = Response(404, NoAudio, FALSE)]
            /\ UNCHANGED <<reqSynth, genCalls>>
       ELSE LET article == CHOOSE a \in db : a.id = reqId[q]
            IN  IF article.audioPath # NoAudio
                THEN /\ reqPc' = [reqPc EXCEPT ![q] = "done"]
                     /\ reqResult' = [reqResult EXCEPT ![q] =
                                         Response(302, article.audioPath, FALSE)]
                     /\ UNCHANGED <<reqSynth, genCalls>>
                ELSE EnterGenerate(q, reqId[q])
    /\ UNCHANGED <<now, webVars, mergeVars, storeVars, runVars, audioFiles, sbObjects, reqId,
                   requestsStarted, generatedOk>>

\* a generator that creates the mp3 before the synthesis has answered
FilesAfterFailureCreated(files, id, t) == [files EXCEPT ![id] = t]

\* what a failed speech synthesis leaves in data/audio
FilesAfterFailure(files, id, t) == files

\* openai.audio.speech.create answers.  Failure: generateAudioOnDemand
\* returns null and the endpoint answers 500.  Success: the mp3 is written;
\* local mode updates the stored article and streams the file, Supabase
\* mode goes on to upload it.
SynthDone(q, ok) ==
    /\ reqPc[q] = "synth"
    /\ LET id == reqId[q]
       IN  IF ~ok
           THEN /\ reqSynth' = [reqSynth EXCEPT ![q] = "failed"]
                /\ reqPc' = [reqPc EXCEPT ![q] = "done"]
                /\ reqResult' = [reqResult EXCEPT ![q] = Response(500, NoAudio, FALSE)]
                /\ audioFiles' = FilesAfterFailure(audioFiles, id, now)
                /\ UNCHANGED <<newsStore, file, generatedOk>>
           ELSE /\ reqSynth' = [reqSynth EXCEPT ![q] = "ok"]
                /\ audioFiles' = [audioFiles EXCEPT ![id] = now]
                /\ generatedOk' = generatedOk \cup {id}
                /\ IF mode = "supabase"
                   THEN /\ reqPc' = [reqPc EXCEPT ![q] = "uploading"]
                        /\ UNCHANGED <<newsStore, file, reqResult>>
                   ELSE LET upd == updateArticleAudioPathLocal(newsStore, file, id,
                                                               LocalPath(id), now)
                        IN  /\ newsStore' = upd.store
                            /\ file' = upd.file
                            /\ reqPc' = [reqPc EXCEPT ![q] = "done"]
                            /\ reqResult' = [reqResult EXCEPT ![q] =
                                                Response(200, LocalPath(id), TRUE)]
    /\ UNCHANGED <<now, webVars, mergeVars, mode, db, runVars, sbObjects, reqId, genCalls,
                   requestsStarted>>

\* uploadAudioToSupabase answers.  Failure: the local path is returned.
\* Success: the article row is updated next.
UploadDone(q, ok) ==
    /\ reqPc[q] = "uploading"
    /\ IF ok
       THEN /\ sbObjects' = sbObjects \cup {reqId[q]}
            /\ reqPc' = [reqPc EXCEPT ![q] = "updating"]
            /\ UNCHANGED reqResult
       ELSE /\ reqPc' = [reqPc EXCEPT ![q] = "done"]
            /\ reqResult' = [reqResult EXCEPT ![q] = Response(302, LocalPath(reqId[q]), TRUE)]
            /\ UNCHANGED sbObjects
    /\ UNCHANGED <<now, webVars, mergeVars, storeVars, runVars, audioFiles, reqId, reqSynth,
                   genCalls, requestsStarted, generatedOk>>

\* updateArticleAudioPath answers (a failure is only logged); the Supabase
\* URL is returned and the endpoint redirects to it
UpdateDone(q, ok) ==
    /\ reqPc[q] = "updating"
    /\ db' = IF ok THEN UpdateAudioRow(db, reqId[q], SupabaseUrl(reqId[q])) ELSE db
    /\ reqPc' = [reqPc EXCEPT ![q] = "done"]
    /\ reqResult' = [reqResult EXCEPT ![q] = Response(302, SupabaseUrl(reqId[q]), TRUE)]
    /\ UNCHANGED <<now, webVars, mergeVars, mode, newsStore, file, runVars, audioFiles, sbObjects,
                   reqId, reqSynth, genCalls, requestsStarted, generatedOk>>

\* the response has been sent
Respond(q) ==
    /\ reqPc[q] = "done"
    /\ reqPc' = [reqPc EXCEPT ![q] = "idle"]
    /\ reqId' = [reqId EXCEPT ![q] = NoId]
    /\ reqSynth' = [reqSynth EXCEPT ![q] = "none"]
    /\ reqResult' = [reqResult EXCEPT ![q] = NoResponse]
    /\ UNCHANGED <<now, webVars, mergeVars, storeVars, runVars, audioFiles, sbObjects, genCalls,
                   requestsStarted, generatedOk>>

\* audioService.cleanupOldAudioFiles (daily cron): mp3 files older than 7 days
\* are deleted
cleanupOldAudioFiles ==
    /\ audioFiles' = [id \in RequestIds |->
                        IF audioFiles[id] # -1 /\ audioFiles[id] < now - AudioRetentionHours
                        THEN -1 ELSE audioFiles[id]]
    /\ audioFiles' # audioFiles
    /\ UNCHANGED <<now, webVars, mergeVars, storeVars, runVars, sbObjects, reqPc, reqId, reqSynth,
                   reqResult, genCalls, requestsStarted, generatedOk>>

\* the process is restarted: the index and the requests in flight are gone,
\* loadExistingArticles refills the index from the file
Restart ==
    /\ LET loaded == loadArticlesFromFile(file, now)
       IN  /\ file' = loaded.file
           /\ newsStore' = IF Len(loaded.articles) > 0
                           THEN StoreSet(loaded.articles, now) ELSE NoEntry
    /\ reqPc' = [q \in Reqs |-> "idle"]
    /\ reqId' = [q \in Reqs |-> NoId]
    /\ reqSynth' = [q \in Reqs |-> "none"]
    /\ reqResult' = [q \in Reqs |-> NoResponse]
    /\ UNCHANGED <<now, webVars, mergeVars, mode, db, runVars, audioFiles, sbObjects, genCalls,
                   requestsStarted, generatedOk>>

\* one whole collectAllNews run between two steps of the audio requests: the
\* provider returns [url], the summary succeeds (ok) or not, and in Supabase
\* mode the save succeeds (saved) or not
CollectOnce(url, ok, saved) ==
    /\ LET loaded == LoadExisting(newsStore, file, now)
           isNew == url \notin {a.url : a \in Range(loaded.articles)}
           newItems == <<Article(collectorId(url, NEWS_CATEGORY), "t1", url, now, NoAudio)>>
           result == mergeArticlesWithDeduplication(loaded.articles, newItems,
                                                    NEWS_CATEGORY, now)
       IN  IF isNew /\ ok
           THEN /\ newsStore' = StoreSet(result.mergedArticles, now)
                /\ IF mode = "supabase"
                   THEN /\ file' = loaded.file
                        /\ db' = IF saved THEN Upsert(db, result.mergedArticles) ELSE db
                   ELSE /\ file' = WriteFile(result.mergedArticles)
                        /\ UNCHANGED db
           ELSE /\ file' = loaded.file
                /\ UNCHANGED <<newsStore, db>>
    /\ <<newsStore, file, db>>' # <<newsStore, file, db>>
    /\ UNCHANGED <<now, webVars, mergeVars, mode, runVars, audioVars>>

AudioInit ==
    /\ now = 0
    /\ MergeIdle
    /\ mode \in {"local", "supabase"}
    /\ newsStore = NoEntry
    /\ file = NoFile
    /\ db = {}
    /\ RunsIdle
    /\ AudioIdle
    /\ WebIdle

\* the steps of the audio request in slot q
RequestStep(q) ==
    \/ \E id \in RequestIds : StartRequest(q, id)
    \/ \E found \in BOOLEAN : LookupDone(q, found)
    \/ \E ok \in BOOLEAN : SynthDone(q, ok)
    \/ \E ok \in BOOLEAN : UploadDone(q, ok)
    \/ \E ok \in BOOLEAN : UpdateDone(q, ok)
    \/ Respond(q)

\* concurrent audio requests over one and a half days
AudioNext ==
    \/ \E q \in Reqs : RequestStep(q)
    \/ Restart
    \/ \E u \in CollectUrls : \E ok, saved \in BOOLEAN : CollectOnce(u, ok, saved)
    \/ Tick

SpecAudio == AudioInit /\ [][AudioNext]_vars

MaxWeekClock == 204

\* a week passes
WeekTick ==
    /\ now + AudioRetentionHours <= MaxWeekClock
    /\ now' = now + AudioRetentionHours
    /\ UNCHANGED <<webVars, mergeVars, storeVars, runVars, audioVars>>

\* half a day passes (explored for the first MaxClock hours of each week)
HalfDayTick ==
    /\ (now % AudioRetentionHours) + TickHours <= MaxClock
    /\ now' = now + TickHours
    /\ UNCHANGED <<webVars, mergeVars, storeVars, runVars, audioVars>>

\* audio requests, one at a time, over more than a week, with the daily cleanup
AudioWeekNext ==
    \/ RequestStep(1)
    \/ cleanupOldAudioFiles
    \/ Restart
    \/ \E ok, saved \in BOOLEAN : CollectOnce(U1, ok, saved)
    \/ HalfDayTick
    \/ WeekTick

SpecAudioWeek == AudioInit /\ [][AudioWeekNext]_vars

-----------------------------------------------------------------------------
(* Direct calls of the merge engine on arbitrary arguments *)

MergeStart == 48

\* ages (hours) of articles handed to the merge engine: fresh, inside the
\* window, exactly at the window's edge, outside the window
ExistingAges == {2, 24, 30}
IncomingAges == {0, 30}

\* an article as the store holds it: its id was given by an earlier merge
StoredArticles(t) ==
    {Article(createArticleId(u, NEWS_CATEGORY), "t1", u, t - age, NoAudio) :
        u \in Urls, age \in ExistingAges}

\* a candidate as collectNewsForCategory returns it
Candidates(t) ==
    {Article(collectorId(u, NEWS_CATEGORY), ti, u, t - age, NoAudio) :
        u \in {U1, U2, U3, U4}, ti \in {"t1"}, age \in IncomingAges}

DistinctUrls(s) == \A i, j \in 1..Len(s) : i # j => s[i].url # s[j].url

ExistingInputs(t) == {s \in SeqUpTo(StoredArticles(t), MaxExisting) : DistinctUrls(s)}
IncomingInputs(t) == SeqUpTo(Candidates(t), MaxIncoming)

MergeInit ==
    /\ now = MergeStart
    /\ StoreIdle /\ RunsIdle /\ AudioIdle /\ WebIdle
    /\ existingArticles \in ExistingInputs(now)
    /\ newArticles \in IncomingInputs(now)
    /\ mergeResult = NoResult
    /\ mpc = "call"
    /\ mRound = 0

\* one call of mergeArticlesWithDeduplication
MergeCall ==
    /\ mpc = "call"
    /\ mergeResult' = mergeArticlesWithDeduplication(existingArticles, newArticles,
                                                     NEWS_CATEGORY, now)
    /\ mpc' = "done"
    /\ mRound' = mRound + 1
    /\ UNCHANGED <<now, webVars, existingArticles, newArticles, storeVars, runVars, audioVars>>

\* the caller hands the merged set back as the existing set of the next call,
\* some hours later, with the same batch again or with an empty one
MergeFeed ==
    /\ mpc = "done"
    /\ mRound < MaxRounds
    /\ \E d \in {0, 12, 24} : now' = now + d
    /\ \E again \in BOOLEAN : newArticles' = IF again THEN newArticles ELSE <<>>
    /\ existingArticles' = mergeResult.mergedArticles
    /\ mpc' = "call"
    /\ UNCHANGED <<webVars, mergeResult, mRound, storeVars, runVars, audioVars>>

MergeNext == MergeCall \/ MergeFeed

SpecMerge == MergeInit /\ [][MergeNext]_vars


-----------------------------------------------------------------------------
(* Request cache: the operations of RequestCacheService *)

\* the endpoints, parameters, contexts, values and TTLs of the direct calls
Endpoints == {"/api/v1/news"}
Contexts == {NoContext, <<"">>, <<"anonymous">>, <<"10.0.0.1">>}
CacheParams ==
    { << [k |-> "category", v |-> StrV(<<"A","I">>)], [k |-> "page", v |-> NumV(1)] >>,
      << [k |-> "page", v |-> NumV(1)], [k |-> "category", v |-> StrV(<<" ","a","I"," ">>)] >>,
      << [k |-> "category", v |-> StrV(<<"A","I">>)], [k |-> "page", v |-> NumV(2)] >> }
\* the keys generateCacheKey gives to the direct calls, computed once
DirectKeys ==
    [e \in Endpoints |-> [p \in CacheParams |-> [c \in Contexts |->
        generateCacheKey(e, p, c)]]]

CacheValues == {JsonNum(0), JsonObj(MessageBody("ok"))}
TtlArgs == {0, 30}

\* NodeCache.get: the value of a key that is present and has not expired
CacheLookup(entries, key, t) ==
    IF entries[key].present /\ entries[key].t >= t THEN entries[key].v ELSE JsonNull

\* NodeCache deletes an expired key when a get finds it
CacheAfterLookup(entries, key, t) ==
    IF entries[key].present /\ entries[key].t < t
    THEN [entries EXCEPT ![key] = NoCacheEntry]
    ELSE entries

\* what RequestCacheService.get returns: the cached value if (cached), else null
GetResult(cached) == IF Truthy(cached) THEN cached ELSE JsonNull

\* NodeCache.set with ttl = customTTL || this.defaultTTL
CacheStore(entries, key, v, customTTL, t) ==
    LET ttl == IF customTTL # 0 THEN customTTL ELSE DefaultTTL
    IN  [entries EXCEPT ![key] = [present |-> TRUE, v |-> v, t |-> t + ttl]]

\* RequestCacheService.set
requestCache_set(endpoint, params, v, customTTL, ctx) ==
    /\ cacheOps < MaxCacheOps
    /\ cacheOps' = cacheOps + 1
    /\ rcache' = CacheStore(rcache, DirectKeys[endpoint][params][ctx], v, customTTL, csec)
    /\ lastSet' = [live |-> TRUE, endpoint |-> endpoint, params |-> params, ctx |-> ctx,
                   v |-> v, ttl |-> IF customTTL # 0 THEN customTTL ELSE DefaultTTL,
                   at |-> csec]
    /\ setLog' = setLog \cup {ctx}
    /\ lastGet' = NoGet
    /\ UNCHANGED <<now, csec, apiVars, fanVars, pageVars, svcVars, sideVars, mergeVars, storeVars, runVars, audioVars>>

\* RequestCacheService.get
requestCache_get(endpoint, params, ctx) ==
    LET key == DirectKeys[endpoint][params][ctx]
    IN  /\ rcache' = CacheAfterLookup(rcache, key, csec)
        /\ lastGet' = [made |-> TRUE, endpoint |-> endpoint, params |-> params, ctx |-> ctx,
                       result |-> GetResult(CacheLookup(rcache, key, csec)), at |-> csec]
        /\ UNCHANGED <<now, csec, lastSet, setLog, cacheOps, apiVars, fanVars, pageVars, svcVars, sideVars, mergeVars, storeVars, runVars, audioVars>>

\* RequestCacheService.delete
requestCache_delete(endpoint, params, ctx) ==
    LET key == DirectKeys[endpoint][params][ctx]
    IN  /\ cacheOps < MaxCacheOps
        /\ cacheOps' = cacheOps + 1
        /\ rcache' = [rcache EXCEPT ![key] = NoCacheEntry]
        /\ lastSet' = IF lastSet.live
                         /\ DirectKeys[lastSet.endpoint][lastSet.params][lastSet.ctx] = key
                      THEN NoSet ELSE lastSet
        /\ lastGet' = NoGet
        /\ UNCHANGED <<now, csec, setLog, apiVars, fanVars, pageVars, svcVars, sideVars, mergeVars, storeVars, runVars, audioVars>>

\* RequestCacheService.clear
requestCache_clear ==
    /\ cacheOps < MaxCacheOps
    /\ cacheOps' = cacheOps + 1
    /\ rcache' = [key \in Md5Digests |-> NoCacheEntry]
    /\ lastSet' = NoSet
    /\ lastGet' = NoGet
    /\ UNCHANGED <<now, csec, setLog, apiVars, fanVars, pageVars, svcVars, sideVars, mergeVars, storeVars, runVars, audioVars>>

\* the periodic check of NodeCache (checkperiod: 10) deletes the expired keys
CheckPeriod ==
    /\ \E key \in Md5Digests : rcache[key].present /\ rcache[key].t < csec
    /\ rcache' = [key \in Md5Digests |->
                    IF rcache[key].present /\ rcache[key].t < csec
                    THEN NoCacheEntry ELSE rcache[key]]
    /\ lastGet' = NoGet
    /\ UNCHANGED <<now, csec, lastSet, setLog, cacheOps,
                   apiVars, fanVars, pageVars, svcVars, sideVars, mergeVars, storeVars, runVars, audioVars>>

\* time passes
CacheTick ==
    /\ csec + CacheTickSec <= MaxCacheClock
    /\ csec' = csec + CacheTickSec
    /\ lastGet' = NoGet
    /\ UNCHANGED <<now, rcache, lastSet, setLog, cacheOps,
                   apiVars, fanVars, pageVars, svcVars, sideVars, mergeVars, storeVars, runVars, audioVars>>

CacheInit ==
    /\ now = 0
    /\ MergeIdle /\ StoreIdle /\ RunsIdle /\ AudioIdle /\ WebIdle

CacheNext ==
    \/ \E e \in Endpoints, p \in CacheParams, v \in CacheValues, ttl \in TtlArgs,
          ctx \in Contexts : requestCache_set(e, p, v, ttl, ctx)
    \/ \E e \in Endpoints, p \in CacheParams, ctx \in Contexts : requestCache_get(e, p, ctx)
    \/ \E e \in Endpoints, p \in CacheParams : requestCache_delete(e, p, <<"anonymous">>)
    \/ requestCache_clear
    \/ CheckPeriod
    \/ CacheTick

SpecCache == CacheInit /\ [][CacheNext]_vars

-----------------------------------------------------------------------------
(* POST /api/v1/news behind newsApiCacheMiddleware *)

\* the body of a request: category, page and pageSize, NullV when undefined
CategoryChars ==
    <<"A","r","t","i","f","i","c","i","a","l"," ",
      "I","n","t","e","l","l","i","g","e","n","c","e">>
Body(category, page, pageSize) == [category |-> category, page |-> page, pageSize |-> pageSize]
RequestBodies ==
    { Body(StrV(CategoryChars), NullV, NullV),
      Body(StrV(CategoryChars), NumV(2), NullV),
      Body(StrV(CategoryChars), NumV(0), NullV),
      Body(StrV(CategoryChars), NullV, NumV(0)),
      Body(StrV(CategoryChars), NullV, NumV(21)),
      Body(StrV(CategoryChars), NullV, NumV(6)),
      Body(NullV, NullV, NullV) }
RequestIps == {<<"10.0.0.1">>}

\* where a cache malfunction strikes: in the middleware before the lookup
\* (keyGenerator, getUserContext), inside requestCache.get or inside
\* requestCache.set
Faults == {"none", "middleware", "get", "set"}

\* value || fallback on a parameter
OrDefault(v, fallback) == IF v.t = "u" \/ (v.t = "n" /\ v.n = 0) THEN NumV(fallback) ELSE v

\* the keyGenerator of newsApiCacheMiddleware
NewsKeyParams(body) ==
    << [k |-> "method", v |-> StrV(<<"P","O","S","T">>)],
       [k |-> "path", v |-> StrV(<<"/","a","p","i","/","v","1","/","n","e","w","s">>)],
       [k |-> "category", v |-> body.category],
       [k |-> "page", v |-> OrDefault(body.page, 1)],
       [k |-> "pageSize", v |-> OrDefault(body.pageSize, 6)] >>

JsonResponse(status, body) == [status |-> status, body |-> body]

\* the validation of the route handler: the 400 it answers with, if any
ValidationError(body) ==
    IF body.category.t # "s" \/ body.category.s = <<>>
    THEN "Category is required and must be a string"
    ELSE IF body.page.t # "u" /\ body.page.n < 1
    THEN "Page must be a positive integer"
    ELSE IF body.pageSize.t # "u" /\ (body.pageSize.n < 1 \/ body.pageSize.n > 20)
    THEN "Page size must be an integer between 1 and 20"
    ELSE ""

\* the route handler in local mode: what it answers and the index and file it
\* leaves
NewsHandler(body, entry, f, t) ==
    IF ValidationError(body) # ""
    THEN [response |-> JsonResponse(400, JsonObj(MessageBody(ValidationError(body)))),
          store |-> entry, file |-> f]
    ELSE LET category == Join(ToLowerCase(Trim(body.category.s)))
             stored == IF category = NEWS_CATEGORY
                       THEN getStoredNews(entry, f, t)
                       ELSE [articles |-> <<>>, store |-> entry, file |-> f]
         IN  [response |-> JsonResponse(200, JsonObj(NewsBody(
                              Paginate(stored.articles, OrDefault(body.page, 1).n,
                                       OrDefault(body.pageSize, 5).n)))),
              store |-> stored.store, file |-> stored.file]

\* every response is cached, whatever its status
shouldCacheAlways(response) == TRUE

\* shouldCache of newsApiCacheMiddleware
shouldCache(response) == response.status >= 200 /\ response.status < 300

\* the catch of the middleware: it logs and calls next(), so the handler runs
MiddlewareCatchSwallow(handled) == [runs |-> 0, response |-> JsonResponse(0, JsonNull)]

MiddlewareCatch(handled) == [runs |-> 1, response |-> handled]

\* a request arrives: the middleware builds the key and awaits requestCache.get
ApiStart(q, body, ip, fault) ==
    /\ apiPc[q] = "idle"
    /\ apiStarted < MaxApiRequests
    /\ apiStarted' = apiStarted + 1
    /\ apiReq' = [apiReq EXCEPT ![q] = [body |-> body, ip |-> ip, fault |-> fault,
                                         faulted |-> fault \in {"middleware", "get"}]]
    /\ IF fault = "middleware"
       THEN LET handled == NewsHandler(body, newsStore, file, now)
                outcome == MiddlewareCatch(handled.response)
            IN  /\ apiPc' = [apiPc EXCEPT ![q] = "done"]
                /\ apiResp' = [apiResp EXCEPT ![q] = outcome.response]
                /\ handlerRuns' = [handlerRuns EXCEPT ![q] = outcome.runs]
                /\ newsStore' = handled.store
                /\ file' = handled.file
                /\ UNCHANGED <<rcache, apiCached>>
       ELSE LET key == generateCacheKey("/api/v1/news", NewsKeyParams(body), ip)
            IN  /\ apiPc' = [apiPc EXCEPT ![q] = "got"]
                /\ apiCached' = [apiCached EXCEPT ![q] =
                        IF fault = "get" THEN JsonNull
                        ELSE GetResult(CacheLookup(rcache, key, csec))]
                /\ rcache' = IF fault = "get" THEN rcache
                             ELSE CacheAfterLookup(rcache, key, csec)
                /\ apiResp' = [apiResp EXCEPT ![q] = JsonResponse(0, JsonNull)]
                /\ handlerRuns' = [handlerRuns EXCEPT ![q] = 0]
                /\ UNCHANGED <<newsStore, file>>
    /\ UNCHANGED <<now, csec, lastSet, lastGet, setLog, cacheOps, mode, db,
                   fanVars, pageVars, svcVars, sideVars, mergeVars, runVars, audioVars>>

\* the lookup has answered: a hit is served from the cache; on a miss the
\* handler runs and res.json caches a 2xx body before sending it
ApiContinue(q) ==
    /\ apiPc[q] = "got"
    /\ apiPc' = [apiPc EXCEPT ![q] = "done"]
    /\ IF Truthy(apiCached[q])
       THEN /\ apiResp' = [apiResp EXCEPT ![q] = JsonResponse(200, apiCached[q])]
            /\ UNCHANGED <<rcache, newsStore, file, handlerRuns, apiReq>>
       ELSE LET handled == NewsHandler(apiReq[q].body, newsStore, file, now)
                key == generateCacheKey("/api/v1/news", NewsKeyParams(apiReq[q].body),
                                        apiReq[q].ip)
                caching == shouldCache(handled.response)
            IN  /\ apiResp' = [apiResp EXCEPT ![q] = handled.response]
                /\ handlerRuns' = [handlerRuns EXCEPT ![q] = @ + 1]
                /\ newsStore' = handled.store
                /\ file' = handled.file
                /\ rcache' = IF caching /\ apiReq[q].fault # "set"
                             THEN CacheStore(rcache, key, handled.response.body,
                                             NewsApiTTL, csec)
                             ELSE rcache
                /\ apiReq' = [apiReq EXCEPT ![q].faulted =
                                @ \/ (caching /\ apiReq[q].fault = "set")]
    /\ UNCHANGED <<now, csec, lastSet, lastGet, setLog, cacheOps, apiCached, apiStarted,
                   mode, db, fanVars, pageVars, svcVars, sideVars, mergeVars, runVars, audioVars>>

\* the response has been sent; the slot takes the next request
ApiFinish(q) ==
    /\ apiPc[q] = "done"
    /\ apiStarted < MaxApiRequests
    /\ apiPc' = [apiPc EXCEPT ![q] = "idle"]
    /\ apiReq' = [apiReq EXCEPT ![q] = NoRequest]
    /\ apiCached' = [apiCached EXCEPT ![q] = JsonNull]
    /\ apiResp' = [apiResp EXCEPT ![q] = JsonResponse(0, JsonNull)]
    /\ handlerRuns' = [handlerRuns EXCEPT ![q] = 0]
    /\ UNCHANGED <<now, cacheVars, apiStarted, fanVars, pageVars, svcVars, sideVars, mergeVars, storeVars, runVars, audioVars>>

\* the articles a collection run has stored before the requests arrive
ServedStore ==
    << Article(createArticleId(U2, NEWS_CATEGORY), "t2", U2, 0, NoAudio),
       Article(createArticleId(U1, NEWS_CATEGORY), "t1", U1, 0, NoAudio) >>

ApiInit ==
    /\ now = 0
    /\ MergeIdle /\ RunsIdle /\ AudioIdle /\ WebIdle
    /\ mode = "local"
    /\ newsStore = StoreSet(ServedStore, 0)
    /\ file = WriteFile(ServedStore)
    /\ db = {}

ApiNext ==
    \/ \E q \in ApiReqs, body \in RequestBodies, ip \in RequestIps, fault \in Faults :
            ApiStart(q, body, ip, fault)
    \/ \E q \in ApiReqs : ApiContinue(q)
    \/ \E q \in ApiReqs : ApiFinish(q)
    \/ CheckPeriod
    \/ CacheTick

SpecApi == ApiInit /\ [][ApiNext]_vars

-----------------------------------------------------------------------------
(* collectAllNews over the configured categories, with failing collaborators *)

\* what the search provider can answer to the request of a category: an error,
\* or a list of raw articles
ProviderAnswers(category) ==
    {[ok |-> FALSE, urls |-> <<>>], [ok |-> TRUE, urls |-> <<>>]}
        \cup (IF category = NEWS_CATEGORY
              THEN {[ok |-> TRUE, urls |-> <<U1>>], [ok |-> TRUE, urls |-> <<U1, U2>>]}
              ELSE {[ok |-> TRUE, urls |-> <<U3>>]})

\* the StoredNewsItem collectNewsForCategory builds for a summarized article
NewsItem(url, category, t) ==
    [Article(collectorId(url, category), "t1", url, t, NoAudio)
        EXCEPT !.category = category]

RECURSIVE Summarized(_, _, _, _, _)
\* validNewsItems: the items of urls, from position i on, whose summary was
\* generated (okItems), stamped at time t
Summarized(urls, i, okItems, category, t) ==
    IF i > Len(urls) THEN <<>>
    ELSE (IF i \in okItems THEN <<NewsItem(urls[i], category, t)>> ELSE <<>>)
            \o Summarized(urls, i + 1, okItems, category, t)

\* a catch that lets the error of one category escape collectNewsForCategory
CategoryCatchRethrow(work) == [pc |-> "thrown", urls |-> <<>>, articles |-> <<>>]

\* the outer catch of collectNewsForCategory: the category yields no articles
CategoryCatch(work) == [pc |-> "done", urls |-> <<>>, articles |-> <<>>]

\* an index update that installs the head of the merged set only
IndexSetPartial(store, category, articles, t) ==
    [store EXCEPT ![category] = StoreSet(SubSeq(articles, 1, 1), t)]

\* newsStore.set(category, mergeResult.mergedArticles)
IndexSet(store, category, articles, t) ==
    [store EXCEPT ![category] = StoreSet(articles, t)]

\* saveArticlesToFile(category, articles, false) inside collectAllNews: the
\* write succeeds (ok) or its error is caught and logged
SaveToFile(st, category, articles, ok) ==
    IF ok
    THEN [st EXCEPT !.file[category] = WriteFile(articles),
                    !.log.persisted = @ \cup {category}]
    ELSE [st EXCEPT !.log.persistFailed = @ \cup {category},
                    !.log.failed[category] = "persist"]

RECURSIVE StoreCategories(_, _, _, _, _, _)
\* the for loop of collectAllNews from index k on, run until it awaits
\* saveArticlesToSupabase (index and saving are set) or is over (index 0 and
\* recordNewsCollectionEnd)
StoreCategories(k, work, st, fileOk, m, t) ==
    IF k > Len(NEWS_CATEGORIES)
    THEN [st EXCEPT !.index = 0, !.saving = <<>>, !.log.outcome = "end"]
    ELSE LET category == NEWS_CATEGORIES[k]
             items == work[category].articles
             loaded == LoadExisting(st.store[category], st.file[category], t)
             result == mergeArticlesWithDeduplication(loaded.articles, items, category, t)
             updated == [st EXCEPT
                            !.store = IndexSet(st.store, category, result.mergedArticles, t),
                            !.file[category] = loaded.file,
                            !.installed[category] = @ \cup {result.mergedArticles},
                            !.log.indexUpdated = @ \cup {category}]
         IN  IF Len(items) = 0
             THEN StoreCategories(k + 1, work, st, fileOk, m, t)
             ELSE IF m = "supabase"
                  THEN [updated EXCEPT !.index = k, !.saving = result.mergedArticles]
                  ELSE StoreCategories(k + 1, work,
                                       SaveToFile(updated, category, result.mergedArticles,
                                                  category \in fileOk),
                                       fileOk, m, t)

\* the state the loop of call r works on
LoopState(r) ==
    [store |-> catStore, file |-> catFile, installed |-> installed,
     log |-> fanLog[r], index |-> fanIndex[r], saving |-> fanSaving[r]]

\* the state the loop of call r leaves
LoopLeaves(r, st) ==
    /\ catStore' = st.store
    /\ catFile' = st.file
    /\ installed' = st.installed
    /\ fanLog' = [fanLog EXCEPT ![r] = st.log]
    /\ fanIndex' = [fanIndex EXCEPT ![r] = st.index]
    /\ fanSaving' = [fanSaving EXCEPT ![r] = st.saving]
    /\ fanPc' = [fanPc EXCEPT ![r] = IF st.index = 0 THEN "idle" ELSE "saving"]

fanRest == <<now, cacheVars, apiVars, pageVars, svcVars, sideVars, mergeVars, newsStore, file, runVars, audioVars>>

\* collectAllNews is called: recordNewsCollectionStart, and every category's
\* collectNewsForCategory sends its request to the search provider
FanStart(r) ==
    /\ fanPc[r] = "idle"
    /\ fanStarted < MaxFanRuns
    /\ fanStarted' = fanStarted + 1
    /\ fanPc' = [fanPc EXCEPT ![r] = "collecting"]
    /\ fanWork' = [fanWork EXCEPT ![r] =
                        [c \in Cats |-> [pc |-> "fetching", urls |-> <<>>, articles |-> <<>>]]]
    /\ fanLog' = [fanLog EXCEPT ![r] = NoLog]
    /\ lastRead' = NoRead
    /\ UNCHANGED <<fanRest, mode, db, catStore, catFile, fanIndex, fanSaving, installed>>

\* the search provider answers the request of category c: on an error the
\* category yields nothing; otherwise the URLs of the existing set are
\* filtered out and the new raw articles go on to be enriched
FanFetchDone(r, c, answer) ==
    /\ fanPc[r] = "collecting"
    /\ fanWork[r][c].pc = "fetching"
    /\ IF ~answer.ok
       THEN /\ fanWork' = [fanWork EXCEPT ![r][c] = CategoryCatch(@)]
            /\ fanLog' = [fanLog EXCEPT ![r].failed[c] = "fetch"]
            /\ UNCHANGED catFile
       ELSE LET loaded == IF Len(answer.urls) = 0
                          THEN [articles |-> <<>>, file |-> catFile[c]]
                          ELSE LoadExisting(catStore[c], catFile[c], now)
                existingUrls == {a.url : a \in Range(loaded.articles)}
                newRawArticles == SelectSeq(answer.urls, LAMBDA u : u \notin existingUrls)
            IN  /\ catFile' = [catFile EXCEPT ![c] = loaded.file]
                /\ fanWork' = [fanWork EXCEPT ![r][c] =
                        IF Len(newRawArticles) = 0
                        THEN [pc |-> "done", urls |-> <<>>, articles |-> <<>>]
                        ELSE [pc |-> "enriching", urls |-> newRawArticles,
                              articles |-> <<>>]]
                /\ UNCHANGED fanLog
    /\ lastRead' = NoRead
    /\ UNCHANGED <<fanRest, mode, db, catStore, fanPc, fanIndex, fanSaving, fanStarted,
                   installed>>

\* content extraction and summarization of the new raw articles of category c
\* are over: okItems are the positions whose summary was generated, the other
\* items are dropped
FanEnrichDone(r, c, okItems) ==
    /\ fanPc[r] = "collecting"
    /\ fanWork[r][c].pc = "enriching"
    /\ okItems \subseteq 1..Len(fanWork[r][c].urls)
    /\ fanWork' = [fanWork EXCEPT ![r][c] =
                        [pc |-> "done", urls |-> <<>>,
                         articles |-> Summarized(fanWork[r][c].urls, 1, okItems, c, now)]]
    /\ fanLog' = [fanLog EXCEPT ![r].failed[c] =
                        IF okItems = 1..Len(fanWork[r][c].urls) THEN "none" ELSE "enrich"]
    /\ lastRead' = NoRead
    /\ UNCHANGED <<fanRest, mode, db, catStore, catFile, fanPc, fanIndex, fanSaving,
                   fanStarted, installed>>

\* Promise.all over the categories settles: when a category has thrown, the
\* outer catch records the error; otherwise the loop over the categories runs
\* (fileOk: the categories whose file write succeeds)
FanStore(r, fileOk) ==
    /\ fanPc[r] = "collecting"
    /\ IF \E c \in Cats : fanWork[r][c].pc = "thrown"
       THEN /\ fanPc' = [fanPc EXCEPT ![r] = "idle"]
            /\ fanLog' = [fanLog EXCEPT ![r].outcome = "error"]
            /\ UNCHANGED <<catStore, catFile, installed, fanIndex, fanSaving>>
       ELSE /\ \A c \in Cats : fanWork[r][c].pc = "done"
            /\ LoopLeaves(r, StoreCategories(1, fanWork[r], LoopState(r), fileOk, mode, now))
    /\ lastRead' = NoRead
    /\ UNCHANGED <<fanRest, mode, db, fanWork, fanStarted>>

\* saveArticlesToSupabase answers for the category the loop stopped at: the
\* rows are upserted, or the failure is logged; the loop goes on
FanSaveDone(r, ok) ==
    /\ fanPc[r] = "saving"
    /\ LET category == NEWS_CATEGORIES[fanIndex[r]]
           st == LoopState(r)
           logged == IF ok
                     THEN [st EXCEPT !.log.persisted = @ \cup {category}]
                     ELSE [st EXCEPT !.log.persistFailed = @ \cup {category},
                                     !.log.failed[category] = "persist"]
       IN  /\ db' = IF ok THEN Upsert(db, fanSaving[r]) ELSE db
           /\ LoopLeaves(r, StoreCategories(fanIndex[r] + 1, fanWork[r], logged, {},
                                            mode, now))
    /\ lastRead' = NoRead
    /\ UNCHANGED <<fanRest, mode, fanWork, fanStarted>>

\* getStoredNews(c, page, pageSize) is called by a reader: the articles it
\* computes its page from
FanRead(c) ==
    /\ LET got == getStoredNews(catStore[c], catFile[c], now)
       IN  /\ lastRead' = [made |-> TRUE, category |-> c, articles |-> got.articles]
           /\ catStore' = [catStore EXCEPT ![c] = got.store]
           /\ catFile' = [catFile EXCEPT ![c] = got.file]
    /\ UNCHANGED <<fanRest, mode, db, fanPc, fanWork, fanIndex, fanSaving, fanLog,
                   fanStarted, installed>>

FanInit ==
    /\ now = 0
    /\ MergeIdle /\ RunsIdle /\ AudioIdle /\ CacheIdle /\ ApiIdle /\ FanIdle /\ PageIdle /\ SvcIdle /\ SideIdle
    /\ mode \in {"local", "supabase"}
    /\ newsStore = NoEntry
    /\ file = NoFile
    /\ db = {}

FanNext ==
    \/ \E r \in FanRuns : FanStart(r)
    \/ \E r \in FanRuns, c \in Cats : \E answer \in ProviderAnswers(c) :
            FanFetchDone(r, c, answer)
    \/ \E r \in FanRuns, c \in Cats : \E okItems \in SUBSET {1, 2} :
            FanEnrichDone(r, c, okItems)
    \/ \E r \in FanRuns : \E fileOk \in SUBSET Cats : FanStore(r, fileOk)
    \/ \E r \in FanRuns : \E ok \in BOOLEAN : FanSaveDone(r, ok)
    \/ \E c \in Cats : FanRead(c)

SpecFanOut == FanInit /\ [][FanNext]_vars

\* every step of a run whose collaborator answers within a bounded time is
\* taken: content extraction has a 10 s timeout, the OpenAI client and the
\* Supabase client give up by themselves, and the loop over the categories is
\* synchronous.  The request to the search provider carries no timeout, so
\* its answer is not guaranteed.
FanFairness ==
    /\ \A r \in FanRuns, c \in Cats :
            WF_vars(\E okItems \in SUBSET {1, 2} : FanEnrichDone(r, c, okItems))
    /\ \A r \in FanRuns : WF_vars(\E fileOk \in SUBSET Cats : FanStore(r, fileOk))
    /\ \A r \in FanRuns : WF_vars(\E ok \in BOOLEAN : FanSaveDone(r, ok))

SpecFanLive == FanInit /\ [][FanNext]_vars /\ FanFairness

-----------------------------------------------------------------------------
(* The pagination of getStoredNews, applied to stored lists of every length *)

\* a stored list of n entities, each named by its position in the stored order
StoredList(n) == [i \in 1..n |-> i]

\* getStoredNews computes a page of a stored list of n entities
PageRead(n, page, pageSize) ==
    /\ pageCall' = [made |-> TRUE, storedArticles |-> StoredList(n), page |-> page,
                    pageSize |-> pageSize]
    /\ pageResult' = Paginate(StoredList(n), page, pageSize)
    /\ UNCHANGED <<now, cacheVars, apiVars, fanVars, svcVars, sideVars, mergeVars, storeVars,
                   runVars, audioVars>>

PageInit ==
    /\ now = 0
    /\ MergeIdle /\ StoreIdle /\ RunsIdle /\ AudioIdle /\ WebIdle

PageNext ==
    \E n \in 0..MaxPageLen, page \in 1..MaxPage, pageSize \in 1..MaxPageSize :
        PageRead(n, page, pageSize)

SpecPage == PageInit /\ [][PageNext]_vars

-----------------------------------------------------------------------------
(* The running service: startup, scheduled and manual runs, enrichment *)

\* the run slots of the running service: its runs follow one another
SvcRuns == {1}

\* the answers of the search provider: an error, or the first k of its articles
ProviderUrls == <<U1, U2, U3, U4>>
SvcAnswers ==
    {[ok |-> FALSE, urls |-> <<>>]}
        \cup {[ok |-> TRUE, urls |-> SubSeq(ProviderUrls, 1, k)] :
                k \in {0, 1, Min(MaxBatch, Len(ProviderUrls))}}

\* the articles of the category the storage backend of the mode holds that
\* are inside the retention window at time t
FreshPersisted(t) ==
    {a \in (IF mode = "supabase" THEN CategoryRows(db) ELSE Range(file.articles)) :
        IsRecent(a, t)}

\* getStorageStats().totalArticles: the articles in the files of data/articles
TotalArticles(f) == IF f.exists THEN Len(f.articles) ELSE 0

\* a raw article whose content extraction has been started
Extracting(url) == [url |-> url, state |-> "extracting", collectedAt |-> -1, summaries |-> 0]

\* the summaryPromises: a summarization call is made for every item that has
\* content, an item without content yields null at once
StartSummaries(items) ==
    [i \in 1..Len(items) |->
        IF items[i].state = "content"
        THEN [items[i] EXCEPT !.state = "summarizing", !.summaries = @ + 1]
        ELSE [items[i] EXCEPT !.state = "failed"]]

\* the number of items with a call of an enrichment collaborator in flight
InFlight(items) ==
    Cardinality({i \in 1..Len(items) : items[i].state \in {"extracting", "summarizing"}})

\* triggerNewsCollection counts the run by itself and calls collectAllNews,
\* which counts it as well
ManualStartCount == 2

\* collectAllNews counts the run: recordNewsCollectionStart
RunStartCount == 1

\* how the promise of collectAllNews settles: its try block ends with
\* recordNewsCollectionEnd, or its catch logs and records the error; the
\* function returns normally in both cases
CollectAllNewsSettles(outcome) == "resolved"

\* the errors collectAllNews records for a run: recordNewsCollectionError in
\* its catch
ErrorsRecorded(outcome) == IF outcome = "error" THEN 1 ELSE 0

\* what triggerNewsCollection returns once the awaited collectAllNews has
\* settled: success, or from its catch a failure (and one more recorded error)
TriggerReturns(settled) ==
    IF settled = "rejected" THEN [success |-> FALSE, errors |-> 1]
    ELSE [success |-> TRUE, errors |-> 0]

\* the run in flight ends with the given outcome ("end" or "error"); when it
\* was started by the manual trigger, triggerNewsCollection returns
RunEnds(outcome) ==
    LET returned == TriggerReturns(CollectAllNewsSettles(outcome))
    IN  /\ ended' = [outcome |-> outcome,
                     errors |-> ErrorsRecorded(outcome) + (IF manual THEN returned.errors ELSE 0),
                     trigger |-> IF ~manual THEN "none"
                                 ELSE IF returned.success THEN "success" ELSE "failure"]
        /\ manual' = FALSE

\* the run in flight goes on, or no run is in flight
RunGoesOn == ended' = NoEnded /\ UNCHANGED manual

\* collectAllNews is entered by run r: the run is counted (count times) and
\* the request to the search provider is sent
BeginRun(r, count) ==
    /\ runPc[r] = "idle"
    /\ runsStarted < MaxSvcRuns
    /\ runsStarted' = runsStarted + 1
    /\ totalRuns' = totalRuns + count
    /\ runPc' = [runPc EXCEPT ![r] = "fetching"]

\* initializeNewsCollection at process start: loadExistingArticles fills the
\* index from the file, getStorageStats decides on an immediate collectAllNews,
\* and the cron job is installed
Boot ==
    /\ proc = "down"
    /\ boots < MaxBoots
    /\ LET loaded == loadArticlesFromFile(file, now)
           index == IF Len(loaded.articles) > 0
                    THEN StoreSet(loaded.articles, now) ELSE newsStore
           immediate == TotalArticles(loaded.file) = 0
       IN  /\ file' = loaded.file
           /\ newsStore' = index
           /\ IF immediate
              THEN BeginRun(1, RunStartCount)
              ELSE UNCHANGED <<runPc, runsStarted, totalRuns>>
           /\ bootLog' = [done |-> TRUE, persisted |-> FreshPersisted(now),
                          indexed |-> Range(StoreGet(index, now)),
                          immediate |-> immediate]
    /\ proc' = "up"
    /\ scheduled' = TRUE
    /\ boots' = boots + 1
    /\ handed' = NoHanded
    /\ RunGoesOn
    /\ UNCHANGED <<now, cacheVars, apiVars, fanVars, pageVars, sideVars, mergeVars, mode, db,
                   runItems, runMerged, ingested, audioVars, enrichCalls>>

\* the cron job fires: collectAllNews
ScheduledRun(r) ==
    /\ proc = "up"
    /\ scheduled
    /\ BeginRun(r, RunStartCount)
    /\ handed' = NoHanded
    /\ RunGoesOn
    /\ UNCHANGED <<now, cacheVars, apiVars, fanVars, pageVars, sideVars, mergeVars, storeVars,
                   runItems, runMerged, ingested, audioVars, proc, scheduled, boots,
                   bootLog, enrichCalls>>

\* the dashboard's manual trigger: statsService.triggerNewsCollection
ManualRun(r) ==
    /\ proc = "up"
    /\ BeginRun(r, ManualStartCount)
    /\ handed' = NoHanded
    /\ manual' = TRUE
    /\ ended' = NoEnded
    /\ UNCHANGED <<now, cacheVars, apiVars, fanVars, pageVars, sideVars, mergeVars, storeVars,
                   runItems, runMerged, ingested, audioVars, proc, scheduled, boots,
                   bootLog, enrichCalls>>

\* the search provider answers run r: on an error, on an empty answer and
\* when every URL is in the existing set the run is over; otherwise the
\* content extraction of every new raw article is started
SvcFetchDone(r, answer) ==
    /\ proc = "up"
    /\ runPc[r] = "fetching"
    /\ LET loaded == IF Len(answer.urls) = 0 THEN [articles |-> <<>>, file |-> file]
                     ELSE LoadExisting(newsStore, file, now)
           existingUrls == {a.url : a \in Range(loaded.articles)}
           newRawArticles == SelectSeq(answer.urls, LAMBDA u : u \notin existingUrls)
       IN  /\ file' = loaded.file
           /\ IF Len(newRawArticles) = 0
              THEN /\ runPc' = [runPc EXCEPT ![r] = "idle"]
                   /\ runItems' = [runItems EXCEPT ![r] = <<>>]
                   /\ RunEnds("end")
                   /\ UNCHANGED enrichCalls
              ELSE /\ runPc' = [runPc EXCEPT ![r] = "extracting"]
                   /\ runItems' = [runItems EXCEPT ![r] =
                            [i \in 1..Len(newRawArticles) |-> Extracting(newRawArticles[i])]]
                   /\ enrichCalls' = enrichCalls + Len(newRawArticles)
                   /\ RunGoesOn
    /\ handed' = NoHanded
    /\ UNCHANGED <<now, cacheVars, apiVars, fanVars, pageVars, sideVars, mergeVars, mode, newsStore,
                   db, runMerged, runsStarted, ingested, audioVars, proc, scheduled, boots,
                   totalRuns, bootLog>>

\* extractArticleContent of item i of run r answers, with content (extracted
\* text or the provider's description) or without any; after the last answer
\* the summaries are started
ExtractDone(r, i, content) ==
    /\ proc = "up"
    /\ runPc[r] = "extracting"
    /\ i \in 1..Len(runItems[r])
    /\ runItems[r][i].state = "extracting"
    /\ LET items == [runItems[r] EXCEPT ![i].state =
                            IF content THEN "content" ELSE "nocontent"]
       IN  IF \E j \in 1..Len(items) : items[j].state = "extracting"
           THEN /\ runItems' = [runItems EXCEPT ![r] = items]
                /\ UNCHANGED <<runPc, enrichCalls>>
           ELSE /\ runItems' = [runItems EXCEPT ![r] = StartSummaries(items)]
                /\ runPc' = [runPc EXCEPT ![r] = "summarizing"]
                /\ enrichCalls' = enrichCalls +
                        Cardinality({j \in 1..Len(items) : items[j].state = "content"})
    /\ handed' = NoHanded
    /\ RunGoesOn
    /\ UNCHANGED <<now, cacheVars, apiVars, fanVars, pageVars, sideVars, mergeVars, storeVars,
                   runMerged, runsStarted, ingested, audioVars, proc, scheduled, boots,
                   totalRuns, bootLog>>

\* the summarization of item i of run r answers (ok) or throws: the item is
\* stamped with the current time, or dropped
SvcSummaryDone(r, i, ok) ==
    /\ proc = "up"
    /\ runPc[r] = "summarizing"
    /\ i \in 1..Len(runItems[r])
    /\ runItems[r][i].state = "summarizing"
    /\ runItems' = [runItems EXCEPT ![r][i].state = IF ok THEN "ok" ELSE "failed",
                                    ![r][i].collectedAt = IF ok THEN now ELSE -1]
    /\ handed' = NoHanded
    /\ RunGoesOn
    /\ UNCHANGED <<now, cacheVars, apiVars, fanVars, pageVars, sideVars, mergeVars, storeVars, runPc,
                   runMerged, runsStarted, ingested, audioVars, proc, scheduled, boots,
                   totalRuns, bootLog, enrichCalls>>

\* every summary of run r has settled: collectNewsForCategory returns its
\* valid items and the loop of collectAllNews merges and stores them; when a
\* statement of the loop throws (thrown), the catch of collectAllNews ends
\* the run
SvcStore(r, thrown) ==
    /\ proc = "up"
    /\ runPc[r] = "summarizing"
    /\ \A i \in 1..Len(runItems[r]) : runItems[r][i].state \in {"ok", "failed"}
    /\ LET newItems == ValidNewsItems(runItems[r], NEWS_CATEGORY)
           loaded == LoadExisting(newsStore, file, now)
           result == mergeArticlesWithDeduplication(loaded.articles, newItems,
                                                    NEWS_CATEGORY, now)
       IN  /\ handed' = [run |-> r, items |-> runItems[r], batch |-> newItems]
           /\ IF Len(newItems) = 0
              THEN /\ ~thrown
                   /\ runPc' = [runPc EXCEPT ![r] = "idle"]
                   /\ RunEnds("end")
                   /\ UNCHANGED <<newsStore, file, runMerged>>
              ELSE IF thrown
              THEN /\ runPc' = [runPc EXCEPT ![r] = "idle"]
                   /\ RunEnds("error")
                   /\ file' = loaded.file
                   /\ UNCHANGED <<newsStore, runMerged>>
              ELSE /\ newsStore' = StoreSet(result.mergedArticles, now)
                   /\ IF mode = "supabase"
                      THEN /\ file' = loaded.file
                           /\ runMerged' = [runMerged EXCEPT ![r] = result.mergedArticles]
                           /\ runPc' = [runPc EXCEPT ![r] = "saving"]
                           /\ RunGoesOn
                      ELSE /\ file' = WriteFile(result.mergedArticles)
                           /\ runPc' = [runPc EXCEPT ![r] = "idle"]
                           /\ RunEnds("end")
                           /\ UNCHANGED runMerged
    /\ runItems' = [runItems EXCEPT ![r] = <<>>]
    /\ UNCHANGED <<now, cacheVars, apiVars, fanVars, pageVars, sideVars, mergeVars, mode, db,
                   runsStarted, ingested, audioVars, proc, scheduled, boots, totalRuns,
                   bootLog, enrichCalls>>

\* saveArticlesToSupabase answers run r
SvcSaveDone(r, ok) ==
    /\ proc = "up"
    /\ runPc[r] = "saving"
    /\ db' = IF ok THEN Upsert(db, runMerged[r]) ELSE db
    /\ runPc' = [runPc EXCEPT ![r] = "idle"]
    /\ runMerged' = [runMerged EXCEPT ![r] = <<>>]
    /\ handed' = NoHanded
    /\ RunEnds("end")
    /\ UNCHANGED <<now, cacheVars, apiVars, fanVars, pageVars, sideVars, mergeVars, mode, newsStore,
                   file, runItems, runsStarted, ingested, audioVars, proc, scheduled,
                   boots, totalRuns, bootLog, enrichCalls>>

\* the process stops: the index, the cron job and the runs in flight are gone
Shutdown ==
    /\ proc = "up"
    /\ boots < MaxBoots
    /\ proc' = "down"
    /\ scheduled' = FALSE
    /\ newsStore' = NoEntry
    /\ runPc' = [r \in Runs |-> "idle"]
    /\ runItems' = [r \in Runs |-> <<>>]
    /\ runMerged' = [r \in Runs |-> <<>>]
    /\ bootLog' = NoBoot
    /\ handed' = NoHanded
    /\ manual' = FALSE
    /\ ended' = NoEnded
    /\ UNCHANGED <<now, cacheVars, apiVars, fanVars, pageVars, sideVars, mergeVars, mode, file, db,
                   runsStarted, ingested, audioVars, boots, totalRuns, enrichCalls>>

\* time passes, in steps of half a day: a run, which takes minutes, is over
\* or has not begun when the clock of the model advances
SvcTick ==
    /\ now + TickHours <= MaxSvcClock
    /\ \A r \in SvcRuns : runPc[r] = "idle"
    /\ now' = now + TickHours
    /\ handed' = NoHanded
    /\ RunGoesOn
    /\ UNCHANGED <<cacheVars, apiVars, fanVars, pageVars, sideVars, mergeVars, storeVars, runVars,
                   audioVars, proc, scheduled, boots, totalRuns, bootLog, enrichCalls>>

SvcInit ==
    /\ now = 0
    /\ MergeIdle /\ RunsIdle /\ AudioIdle /\ WebIdle
    /\ mode \in {"local", "supabase"}
    /\ newsStore = NoEntry
    /\ file = NoFile
    /\ db = {}

SvcNext ==
    \/ Boot
    \/ \E r \in SvcRuns : ScheduledRun(r)
    \/ \E r \in SvcRuns : ManualRun(r)
    \/ \E r \in SvcRuns : \E answer \in SvcAnswers : SvcFetchDone(r, answer)
    \/ \E r \in SvcRuns : \E i \in 1..MaxBatch : \E content \in BOOLEAN : ExtractDone(r, i, content)
    \/ \E r \in SvcRuns : \E i \in 1..MaxBatch : \E ok \in BOOLEAN : SvcSummaryDone(r, i, ok)
    \/ \E r \in SvcRuns : \E thrown \in BOOLEAN : SvcStore(r, thrown)
    \/ \E r \in SvcRuns : \E ok \in BOOLEAN : SvcSaveDone(r, ok)
    \/ Shutdown
    \/ SvcTick

SpecService == SvcInit /\ [][SvcNext]_vars

-----------------------------------------------------------------------------
(* statsService: the listeners counted by /audio-start and /audio-end *)

\* a decrement that is not clamped
ListenersAfterEndUnclamped(n) == n - 1

\* recordAudioEnd: Math.max(0, currentlyListening - 1)
ListenersAfterEnd(n) == Max(0, n - 1)

\* the listeningTimeMinutes of the body of POST /audio-end, 0 when it is absent
ListeningTimes == {0, 1, 3}

\* POST /audio-start: statsService.recordAudioStart()
recordAudioStart ==
    /\ statCalls < MaxStatCalls
    /\ statCalls' = statCalls + 1
    /\ currentlyListening' = currentlyListening + 1
    /\ UNCHANGED <<now, cacheVars, apiVars, fanVars, pageVars, svcVars, playerVars, batchVars,
                   listeningMinutes, mergeVars, storeVars, runVars, audioVars>>

\* POST /audio-end: statsService.recordAudioEnd(listeningTimeMinutes || 0)
recordAudioEnd(listeningTimeMinutes) ==
    /\ statCalls < MaxStatCalls
    /\ statCalls' = statCalls + 1
    /\ currentlyListening' = ListenersAfterEnd(currentlyListening)
    /\ listeningMinutes' = listeningMinutes + listeningTimeMinutes
    /\ UNCHANGED <<now, cacheVars, apiVars, fanVars, pageVars, svcVars, playerVars, batchVars,
                   mergeVars, storeVars, runVars, audioVars>>

StatInit ==
    /\ now = 0
    /\ MergeIdle /\ StoreIdle /\ RunsIdle /\ AudioIdle /\ WebIdle

StatNext ==
    \/ recordAudioStart
    \/ \E listeningTimeMinutes \in ListeningTimes : recordAudioEnd(listeningTimeMinutes)

SpecListening == StatInit /\ [][StatNext]_vars

-----------------------------------------------------------------------------
(* generateBatchSpeech: speech synthesis for a list of articles *)

maxConcurrent == 3

\* a slice that takes every remaining article at once
BatchSliceRest(i, n) == (i + 1)..n

\* articles.slice(i, i + maxConcurrent): the positions of the batch
BatchSlice(i, n) == (i + 1)..Min(i + maxConcurrent, n)

\* batch.map(async ...): the request of every article of the batch is sent
StartBatch(states, i, n) ==
    [k \in 1..n |-> IF k \in BatchSlice(i, n) THEN "inflight" ELSE states[k]]

batchRest == <<now, cacheVars, apiVars, fanVars, pageVars, svcVars, playerVars, statVars,
               mergeVars, storeVars, runVars, audioVars>>

\* generateBatchSpeech(articles) is called with n articles: the first batch
\* is started; with no article the loop is skipped and the empty map returned
BatchCall(n) ==
    /\ bPc = "idle"
    /\ bCount' = n
    /\ bPos' = 0
    /\ bMap' = {}
    /\ bReturned' = {}
    /\ bState' = StartBatch([k \in 1..n |-> "waiting"], 0, n)
    /\ bPc' = IF 0 < n THEN "batch" ELSE "returned"
    /\ UNCHANGED batchRest

\* generateSpeechFromText of the article at position k answers with a path
\* (ok) or with null; a path is put into the map
SpeechDone(k, ok) ==
    /\ bPc = "batch"
    /\ k \in 1..bCount
    /\ bState[k] = "inflight"
    /\ bState' = [bState EXCEPT ![k] = IF ok THEN "ok" ELSE "null"]
    /\ bMap' = IF ok THEN bMap \cup {k} ELSE bMap
    /\ UNCHANGED <<batchRest, bPc, bCount, bPos, bReturned>>

\* Promise.all(batchPromises) resolves: the loop waits a second when articles
\* are left, otherwise it is over and the map is returned
BatchSettled ==
    /\ bPc = "batch"
    /\ \A k \in BatchSlice(bPos, bCount) : bState[k] \in {"ok", "null"}
    /\ IF bPos + maxConcurrent < bCount
       THEN /\ bPc' = "delay"
            /\ UNCHANGED bReturned
       ELSE /\ bPc' = "returned"
            /\ bReturned' = bMap
    /\ UNCHANGED <<batchRest, bCount, bPos, bState, bMap>>

\* the delay between two batches is over: i += maxConcurrent and the next
\* batch is started
DelayOver ==
    /\ bPc = "delay"
    /\ bPos' = bPos + maxConcurrent
    /\ bState' = StartBatch(bState, bPos + maxConcurrent, bCount)
    /\ bPc' = "batch"
    /\ UNCHANGED <<batchRest, bCount, bMap, bReturned>>

BatchInit ==
    /\ now = 0
    /\ MergeIdle /\ StoreIdle /\ RunsIdle /\ AudioIdle /\ WebIdle

BatchNext ==
    \/ \E n \in 0..MaxArticles : BatchCall(n)
    \/ \E k \in 1..MaxArticles : \E ok \in BOOLEAN : SpeechDone(k, ok)
    \/ BatchSettled
    \/ DelayOver

SpecBatch == BatchInit /\ [][BatchNext]_vars

-----------------------------------------------------------------------------
(* AudioProvider: the player state of the frontend and its audio element *)

Tracks == {"a", "b"}

\* the play() promises still pending are rejected (pause(), or the load that
\* a new src starts); a promise already taken for resolution is not touched
RejectPending(calls) ==
    [c \in PlayCalls |->
        IF calls[c].promise = "pending"
        THEN [calls[c] EXCEPT !.promise = "rejected"]
        ELSE calls[c]]

playerRest == <<now, cacheVars, apiVars, fanVars, pageVars, svcVars, batchVars, statVars,
                mergeVars, storeVars, runVars, audioVars>>

\* playTrack(article) up to its await: the state is set, the source is set
\* when the track is new, and audio.play() leaves a pending promise
playTrack(c, article) ==
    /\ playsStarted < MaxPlays
    /\ playCalls[c].pc = "idle"
    /\ playsStarted' = playsStarted + 1
    /\ isLoading' = TRUE
    /\ currentTrack' = article
    /\ isVisible' = TRUE
    /\ LET reload == ~audioLoaded \/ currentTrack # article
           calls == IF reload THEN RejectPending(playCalls) ELSE playCalls
       IN  /\ audioSrc' = IF reload THEN article ELSE audioSrc
           /\ playCalls' = [calls EXCEPT ![c] = [pc |-> "awaiting", track |-> article,
                                                 promise |-> "pending"]]
    /\ audioLoaded' = TRUE
    /\ audioPaused' = FALSE
    /\ lastHide' = FALSE
    /\ UNCHANGED <<playerRest, isPlaying>>

\* the element can play: it takes its pending play() promises and queues the
\* task that resolves them
PlayNotify ==
    /\ audioPaused = FALSE
    /\ \E c \in PlayCalls : playCalls[c].promise = "pending"
    /\ playCalls' = [c \in PlayCalls |->
                        IF playCalls[c].promise = "pending"
                        THEN [playCalls[c] EXCEPT !.promise = "taken"]
                        ELSE playCalls[c]]
    /\ UNCHANGED <<playerRest, currentTrack, isPlaying, isLoading, isVisible, audioLoaded,
                   audioSrc, audioPaused, playsStarted, lastHide>>

\* audio.play() of call c fails by itself (source not playable, not allowed)
PlayFails(c) ==
    /\ playCalls[c].promise = "pending"
    /\ playCalls' = [playCalls EXCEPT ![c].promise = "rejected"]
    /\ UNCHANGED <<playerRest, currentTrack, isPlaying, isLoading, isVisible, audioLoaded,
                   audioSrc, audioPaused, playsStarted, lastHide>>

\* the promise of call c settles and playTrack goes on after its await:
\* setIsPlaying(true), setIsLoading(false), or the catch with setIsLoading(false)
PlaySettles(c) ==
    /\ playCalls[c].pc = "awaiting"
    /\ playCalls[c].promise \in {"taken", "rejected"}
    /\ isPlaying' = IF playCalls[c].promise = "taken" THEN TRUE ELSE isPlaying
    /\ isLoading' = FALSE
    /\ playCalls' = [playCalls EXCEPT ![c] = NoPlayCall]
    /\ UNCHANGED <<playerRest, currentTrack, isVisible, audioLoaded, audioSrc, audioPaused,
                   playsStarted, lastHide>>

\* the body of pauseTrack: audio.pause() and setIsPlaying(false)
pauseTrackBody ==
    /\ audioPaused' = TRUE
    /\ playCalls' = IF audioPaused THEN playCalls ELSE RejectPending(playCalls)
    /\ isPlaying' = FALSE

pauseTrack ==
    /\ pauseTrackBody
    /\ lastHide' = FALSE
    /\ UNCHANGED <<playerRest, currentTrack, isLoading, isVisible, audioLoaded, audioSrc,
                   playsStarted>>

togglePlayPause(c) ==
    \/ isPlaying /\ pauseTrack
    \/ ~isPlaying /\ currentTrack # NoTrack /\ playTrack(c, currentTrack)

hidePlayer ==
    /\ pauseTrackBody
    /\ isVisible' = FALSE
    /\ currentTrack' = NoTrack
    /\ audioLoaded' = FALSE
    /\ lastHide' = TRUE
    /\ UNCHANGED <<playerRest, isLoading, audioSrc, playsStarted>>

PlayerInit ==
    /\ now = 0
    /\ MergeIdle /\ StoreIdle /\ RunsIdle /\ AudioIdle /\ WebIdle

PlayerNext ==
    \/ \E c \in PlayCalls : togglePlayPause(c)
    \/ \E c \in PlayCalls : \E article \in Tracks : playTrack(c, article)
    \/ PlayNotify
    \/ \E c \in PlayCalls : PlayFails(c)
    \/ \E c \in PlayCalls : PlaySettles(c)
    \/ pauseTrack
    \/ hidePlayer

SpecPlayer == PlayerInit /\ [][PlayerNext]_vars

-----------------------------------------------------------------------------
(* Claims about the merge engine, checked under SpecMerge *)

mergedArticles == mergeResult.mergedArticles

\* the existing articles still inside the retention window at the merge
ValidExisting == {a \in Range(existingArticles) : IsRecent(a, now)}

\* C1: the merged set is the genuinely new entities together with every
\* existing entity still inside the 24-hour window, each retained entity
\* identical to its input, and the counts say so (newCount candidates whose
\* URL is not among the existing ones, the others duplicates).
C1_MergedIsNewPlusValid ==
    mpc = "done" =>
        /\ \A a \in ValidExisting : a \in Range(mergedArticles)
        /\ \A m \in Range(mergedArticles) :
              \/ m \in ValidExisting
              \/ \E c \in Range(newArticles) :
                    /\ c.url = m.url
                    /\ c.url \notin {a.url : a \in Range(existingArticles)}
        /\ Len(mergedArticles) = mergeResult.newCount + Cardinality(ValidExisting)
        /\ mergeResult.newCount + mergeResult.duplicateCount = Len(newArticles)

\* C4: no two entities of one merged set have the same id.
C4_MergedIdsUnique ==
    mpc = "done" =>
        \A i, j \in 1..Len(mergedArticles) :
            i # j => mergedArticles[i].id # mergedArticles[j].id

\* C8: no entity collected more than 24 hours before the merge is in the
\* merged set, whether it came in the existing set or in the incoming batch.
C8_NoStaleInMerged ==
    mpc = "done" =>
        \A m \in Range(mergedArticles) : m.collectedAt >= now - RetentionHours

\* C10: the id of a merged entity depends on (category, url) only, and it is
\* the id the collector computed for the candidate.
C10_IdIsCollectorId ==
    mpc = "done" =>
        /\ \A m1, m2 \in Range(mergedArticles) : m1.url = m2.url => m1.id = m2.id
        /\ \A c \in Range(newArticles), m \in Range(mergedArticles) :
              c.url = m.url => m.id = c.id

\* the URLs of the existing articles still inside the retention window
ValidUrls == {a.url : a \in ValidExisting}

\* the positions of the incoming batch whose URL is in the set urls
PositionsIn(urls) == {i \in 1..Len(newArticles) : newArticles[i].url \in urls}

\* C23: when the merge is run again at once with the same incoming batch and
\* the merged set of the first call as existing set, the second call counts
\* no new entity, counts every candidate as a duplicate, and its merged set
\* holds the same entities as the first one.
C23_SecondMergeAddsNothing ==
    (mpc = "done" /\ mRound = 2 /\ now = MergeStart /\ Len(newArticles) > 0)
        => /\ mergeResult.newCount = 0
           /\ mergeResult.duplicateCount = Len(newArticles)
           /\ {m.url : m \in Range(mergedArticles)} = {a.url : a \in Range(existingArticles)}

\* C24: candidates of one batch that share a source URL are deduplicated
\* against each other, the first occurrence winning: a URL that no existing
\* article has occurs once in the merged set, with the collectedAt of its
\* first candidate, and the later candidates are counted as duplicates.
C24_BatchDeduplicated ==
    mpc = "done" =>
        LET existingUrls == {a.url : a \in Range(existingArticles)}
            newUrls == {c.url : c \in Range(newArticles)} \ existingUrls
            First(u) == CHOOSE i \in PositionsIn({u}) : \A j \in PositionsIn({u}) : i <= j
        IN  /\ \A u \in newUrls :
                  /\ Cardinality({i \in 1..Len(mergedArticles) : mergedArticles[i].url = u}) = 1
                  /\ \A m \in Range(mergedArticles) :
                        m.url = u => m.collectedAt = newArticles[First(u)].collectedAt
            /\ mergeResult.newCount = Cardinality(newUrls)
            /\ mergeResult.duplicateCount = Len(newArticles) - Cardinality(newUrls)

\* C25: removedCount is the number of existing entities outside the 24-hour
\* window, and duplicates are detected against the valid entities only: a
\* candidate whose URL only a retention-evicted entity has is ingested as
\* new, a candidate whose URL a valid entity has is counted as a duplicate,
\* and newCount + duplicateCount is the number of candidates.
C25_DuplicatesAgainstValidOnly ==
    mpc = "done" =>
        /\ mergeResult.removedCount = Len(existingArticles) - Cardinality(ValidExisting)
        /\ mergeResult.newCount + mergeResult.duplicateCount = Len(newArticles)
        /\ mergeResult.duplicateCount = Cardinality(PositionsIn(ValidUrls))
        /\ \A c \in Range(newArticles) :
              c.url \notin ValidUrls => \E m \in Range(mergedArticles) : m.url = c.url

\* C26: with an empty incoming batch the merged set is the valid existing
\* entities, newCount and duplicateCount are 0 and removedCount is the number
\* of stale existing entities.
C26_EmptyBatchKeepsValid ==
    (mpc = "done" /\ newArticles = <<>>)
        => /\ Range(mergedArticles) = ValidExisting
           /\ Len(mergedArticles) = Cardinality(ValidExisting)
           /\ mergeResult.newCount = 0
           /\ mergeResult.duplicateCount = 0
           /\ mergeResult.removedCount = Len(existingArticles) - Cardinality(ValidExisting)

\* C27: the merged set is sorted by collectedAt, newest first.
C27_MergedNewestFirst ==
    mpc = "done" =>
        \A i, j \in 1..Len(mergedArticles) :
            i < j => mergedArticles[i].collectedAt >= mergedArticles[j].collectedAt

C27_Witness ==
    /\ mpc = "done"
    /\ Len(newArticles) = 2
    /\ newArticles[1].collectedAt < newArticles[2].collectedAt
    /\ Len(mergedArticles) = 2
    /\ mergedArticles[1].url = newArticles[2].url
    /\ mergedArticles[1].collectedAt > mergedArticles[2].collectedAt

-----------------------------------------------------------------------------
(* Claims about collection runs, checked under SpecCollect *)

AllRunsComplete == \A r \in Runs : runPc[r] = "idle"

\* the category's articles as getStoredNews serves them
ServedArticles == LoadExisting(newsStore, file, now).articles

\* C2: once the collection runs have completed, the stored set of the
\* category holds every source URL at most once and still holds every
\* entity a run has ingested that is inside the retention window.
C2_NoDuplicationNoLoss ==
    AllRunsComplete =>
        /\ DistinctUrls(ServedArticles)
        /\ \A g \in ingested :
              g.collectedAt > now - RetentionHours
                  => \E a \in Range(ServedArticles) : a.url = g.url

\* C9: the collectedAt of an entity is set at its first ingestion and a later
\* run never stores the same source URL with another collectedAt (stated for
\* ingestions that are both still inside the retention window).
C9_CollectedAtSetOnce ==
    \A g1, g2 \in ingested :
        (/\ g1.url = g2.url
         /\ g1.collectedAt > now - RetentionHours
         /\ g2.collectedAt > now - RetentionHours)
            => g1.collectedAt = g2.collectedAt

\* C21: both backends replace the partition: after a run has saved the merged
\* set S of the category, loading the category from the backend yields
\* exactly S, from the file in local mode and from the table in Supabase mode.
C21_LoadYieldsSavedSet ==
    [][\A r \in Runs :
          /\ (/\ mode = "supabase"
              /\ runPc[r] = "saving" /\ runPc'[r] = "idle"
              /\ db' = Upsert(db, runMerged[r]))
                => CategoryRows(db') = Range(runMerged[r])
          /\ (/\ mode = "local"
              /\ runPc[r] = "enriching" /\ runPc'[r] = "idle"
              /\ newsStore' # newsStore)
                => file'.articles = newsStore'.articles]_vars

-----------------------------------------------------------------------------
(* Claims about audio generation, checked under SpecAudio and SpecAudioWeek *)

\* C3: of the concurrent requests for the audio of one article, only one is
\* at the speech synthesis: no two requests for the same article have a
\* synthesis call in flight at the same time.
C3_OneSynthesisInFlight ==
    \A q1, q2 \in Reqs :
        (q1 # q2 /\ reqPc[q1] = "synth" /\ reqPc[q2] = "synth")
            => reqId[q1] # reqId[q2]

Decides(q) ==
    /\ reqPc[q] = "lookup" \/ (reqPc[q] = "idle" /\ mode = "local")
    /\ reqPc'[q] \in {"synth", "done"}

\* C6: a failed speech synthesis is answered with an error (null from
\* generateAudioOnDemand, 500 from the endpoint) and leaves no record: the
\* audio files, the bucket, the index, the file and the table are unchanged;
\* and a request that finds the article without audio always calls the
\* generator, whatever failed before.
C6_FailureNotCached ==
    [][\A q \in Reqs :
        /\ (reqSynth[q] = "pending" /\ reqSynth'[q] = "failed")
              => /\ reqPc'[q] = "done"
                 /\ reqResult'[q] = [status |-> 500, location |-> NoAudio,
                                     generated |-> FALSE]
                 /\ audioFiles' = audioFiles
                 /\ sbObjects' = sbObjects
                 /\ <<newsStore, file, db>>' = <<newsStore, file, db>>
        /\ (Decides(q) /\ audioFiles[reqId'[q]] = -1)
              => \/ reqPc'[q] = "synth" /\ genCalls'[reqId'[q]] = genCalls[reqId'[q]] + 1
                 \/ reqResult'[q].status = 404
                 \/ /\ reqResult'[q].status = 302
                    /\ \E a \in db : a.id = reqId'[q] /\ a.audioPath = reqResult'[q].location
      ]_vars

\* C6 witness: one request was answered 500 after a failed synthesis, no
\* audio file exists, and another request for the same article is at the
\* generator (its second call).
C6_Witness ==
    \E q1, q2 \in Reqs :
        /\ q1 # q2
        /\ reqSynth[q1] = "failed" /\ reqResult[q1].status = 500
        /\ reqPc[q2] = "synth" /\ reqId[q2] = reqId[q1]
        /\ audioFiles[reqId[q1]] = -1
        /\ genCalls[reqId[q1]] = 2

\* C7: when generateAudioOnDemand returns a location for an article, the
\* stored entity in the backend (file in local mode, table in Supabase mode)
\* has that location as its audioPath.
C7_ReturnedPathIsStored ==
    [][\A q \in Reqs :
        (reqPc[q] # "done" /\ reqPc'[q] = "done" /\ reqResult'[q].generated)
            => \A a \in (IF mode = "supabase" THEN db' ELSE Range(file'.articles)) :
                    a.id = reqId'[q] => a.audioPath = reqResult'[q].location
      ]_vars

-----------------------------------------------------------------------------
(* Claims about the request cache, checked under SpecCache *)

\* two characters that are the same letter in the same or in different case
SameLetter(a, b) ==
    \/ a = b
    \/ \E j \in 1..Len(UpperCase) : {a, b} = {UpperCase[j], LowerCase[j]}

\* a string without its surrounding whitespace
Core(chars) ==
    LET inner == {i \in 1..Len(chars) : chars[i] \notin WhiteSpace}
    IN  IF inner = {} THEN <<>>
        ELSE SubSeq(chars, CHOOSE i \in inner : \A j \in inner : i <= j,
                           CHOOSE i \in inner : \A j \in inner : i >= j)

\* p2 differs from p1 only in the order of its keys and in the letter case or
\* surrounding whitespace of its string values
EquivalentParams(p1, p2) ==
    /\ ParamKeys(p1) = ParamKeys(p2)
    /\ Len(p1) = Len(p2)
    /\ \A key \in ParamKeys(p1) :
        LET v1 == ParamValue(p1, key)
            v2 == ParamValue(p2, key)
        IN  /\ v1.t = v2.t
            /\ v1.n = v2.n
            /\ Len(Core(v1.s)) = Len(Core(v2.s))
            /\ \A i \in 1..Len(Core(v1.s)) : SameLetter(Core(v1.s)[i], Core(v2.s)[i])

\* the latest call was a get, on the endpoint of the latest set, which has not
\* been deleted or cleared since
GetFollowsSet ==
    /\ lastGet.made /\ lastSet.live
    /\ lastGet.endpoint = lastSet.endpoint

\* C11: after set(endpoint, P1, v, ttl, ctx), get(endpoint, P2, ctx) returns v
\* for every P2 that differs from P1 only in the order of its keys and in the
\* letter case or surrounding whitespace of its string values.
C11_EquivalentParamsSameEntry ==
    (/\ GetFollowsSet
     /\ lastGet.ctx = lastSet.ctx
     /\ EquivalentParams(lastSet.params, lastGet.params)
     /\ lastGet.at <= lastSet.at + lastSet.ttl)
        => lastGet.result = lastSet.v

\* C12: a value stored under one caller context is never returned to a get
\* under a different context, an absent or empty context and the literal
\* 'anonymous' included: a get that returns a value was preceded by a set
\* under the very same context.
C12_NoSharingAcrossContexts ==
    (lastGet.made /\ lastGet.result # JsonNull) => lastGet.ctx \in setLog

\* C13: a get before the entry's TTL has elapsed returns exactly the value
\* that was set, and a get after the TTL has elapsed returns null, with or
\* without a sweep having run.
C13_ValueUntilExpiry ==
    (/\ GetFollowsSet
     /\ lastGet.ctx = lastSet.ctx
     /\ lastGet.params = lastSet.params)
        => lastGet.result = (IF lastGet.at <= lastSet.at + lastSet.ttl
                             THEN lastSet.v ELSE JsonNull)

-----------------------------------------------------------------------------
(* Claims about the news endpoint and its cache middleware, checked under SpecApi *)

\* C14: a failure while reading or writing the request cache never fails the
\* request: when key generation, requestCache.get or requestCache.set has
\* thrown, the route handler has run exactly once and its response is the one
\* sent.
C14_CacheFailOpen ==
    \A q \in ApiReqs :
        (apiPc[q] = "done" /\ apiReq[q].faulted)
            => /\ handlerRuns[q] = 1
               /\ apiResp[q] = NewsHandler(apiReq[q].body, newsStore, file, now).response

C14_Witness ==
    \E q \in ApiReqs :
        /\ apiPc[q] = "done"
        /\ apiReq[q].fault = "middleware"
        /\ apiResp[q].status = 200

\* the request is malformed: no category, or page or pageSize out of range
Malformed(body) ==
    \/ body.category.t # "s"
    \/ body.page.t = "n" /\ body.page.n < 1
    \/ body.pageSize.t = "n" /\ (body.pageSize.n < 1 \/ body.pageSize.n > 20)

\* C19: a news request with a malformed category or an out-of-range page or
\* pageSize is answered with a 400 and never with article data, whatever the
\* request cache holds.
C19_MalformedRejected ==
    \A q \in ApiReqs :
        (apiPc[q] = "done" /\ Malformed(apiReq[q].body))
            => /\ apiResp[q].status = 400
               /\ apiResp[q].body.o.kind # "news"

-----------------------------------------------------------------------------
(* Claims about a collection run over the categories, checked under SpecFanOut *)

\* the call r of collectAllNews is over
RunOver(r) == fanPc[r] = "idle" /\ fanLog[r].outcome # "none"

\* C15: when persisting the merged set of a category fails during a run (file
\* write or Supabase save), the index of that category has not been updated
\* by the run, and the run, once over, is recorded as failed.
C15_PersistFailureKeepsIndex ==
    \A r \in FanRuns : \A c \in fanLog[r].persistFailed :
        /\ c \notin fanLog[r].indexUpdated
        /\ RunOver(r) => fanLog[r].outcome = "error"

C17_ReadsCompleteSets ==
    lastRead.made => lastRead.articles \in installed[lastRead.category]

C17_Witness ==
    \E r \in FanRuns :
        /\ fanPc[r] = "saving"
        /\ lastRead.made
        /\ lastRead.category = NEWS_CATEGORIES[fanIndex[r]]
        /\ lastRead.articles = fanSaving[r]
        /\ Len(lastRead.articles) = 2

-----------------------------------------------------------------------------
(* Claim about termination, checked under SpecFanLive *)

\* C18: every collection run that was started eventually finishes and
\* returns to idle.
C18_RunsFinish ==
    \A r \in FanRuns : (fanPc[r] # "idle") ~> (fanPc[r] = "idle")

-----------------------------------------------------------------------------
(* Claim about the pagination, checked under SpecPage *)

\* the entities every page from 1 to totalPages returns, in reading order
RECURSIVE PagesRead(_, _, _, _)
PagesRead(storedArticles, p, totalPages, pageSize) ==
    IF p > totalPages THEN <<>>
    ELSE Paginate(storedArticles, p, pageSize).articles
            \o PagesRead(storedArticles, p + 1, totalPages, pageSize)

\* C20: for a stored list of n entities, page >= 1 and pageSize >= 1:
\* totalResults is n, totalPages is the least number of pages of pageSize
\* that hold n entities, hasNextPage iff page < totalPages, hasPreviousPage
\* iff page > 1, the articles are the stored entities from position
\* (page-1)*pageSize up to page*pageSize, the pages 1..totalPages together
\* hold every stored entity exactly once, and a page beyond totalPages is
\* empty.
C20_Pagination ==
    pageCall.made =>
        LET stored == pageCall.storedArticles
            n == Len(stored)
            page == pageCall.page
            pageSize == pageCall.pageSize
            info == pageResult.pagination
            first == (page - 1) * pageSize
            last == IF page * pageSize < n THEN page * pageSize ELSE n
        IN  /\ info.page = page /\ info.pageSize = pageSize
            /\ info.totalResults = n
            /\ info.totalPages * pageSize >= n
            /\ (info.totalPages - 1) * pageSize < n \/ (n = 0 /\ info.totalPages = 0)
            /\ info.hasNextPage <=> page < info.totalPages
            /\ info.hasPreviousPage <=> page > 1
            /\ Len(pageResult.articles) = (IF last > first THEN last - first ELSE 0)
            /\ \A i \in 1..Len(pageResult.articles) :
                    pageResult.articles[i] = stored[first + i]
            /\ PagesRead(stored, 1, info.totalPages, pageSize) = stored
            /\ page > info.totalPages => pageResult.articles = <<>>

C20_Witness ==
    /\ pageCall.made
    /\ pageResult.pagination.totalPages >= 2
    /\ pageCall.page = pageResult.pagination.totalPages
    /\ Len(pageResult.articles) > 0
    /\ Len(pageResult.articles) < pageCall.pageSize

-----------------------------------------------------------------------------
(* Claims about the running service, checked under SpecService *)

\* C22: at startup the persisted articles of the category are loaded into the
\* index, an immediate collection run is started if and only if no persisted
\* article exists, and the schedule is installed in both cases.
C22_StartupLoadsPersisted ==
    bootLog.done =>
        /\ bootLog.indexed = bootLog.persisted
        /\ bootLog.immediate <=> (bootLog.persisted = {})
        /\ scheduled

\* C28: within one collection run at most 3 enrichment calls (content
\* extraction or summarization) are in flight at the same time.
C28_EnrichmentBounded ==
    \A r \in SvcRuns : InFlight(runItems[r]) <= 3

\* the URLs of the existing set a run of the category works with
ExistingUrls == {a.url : a \in Range(LoadExisting(newsStore, file, now).articles)}

\* the URLs of the items of a run whose summarization succeeded
OkUrls(items) == {items[i].url : i \in {j \in 1..Len(items) : items[j].state = "ok"}}

\* enrichment runs on new candidates only, each is summarized at most once,
\* and the batch handed to the merge is the successfully summarized candidates
EnrichedItems ==
    /\ \A r \in SvcRuns : \A i \in 1..Len(runItems[r]) :
            /\ runItems[r][i].url \notin ExistingUrls
            /\ runItems[r][i].summaries <= 1
    /\ handed.run # 0 =>
            /\ \A i \in 1..Len(handed.items) : handed.items[i].summaries <= 1
            /\ {a.url : a \in Range(handed.batch)} = OkUrls(handed.items)
            /\ Len(handed.batch) = Cardinality(OkUrls(handed.items))
            /\ \A a \in Range(handed.batch) : a.collectedAt >= 0

\* a run whose fetched candidates all exist already ends at the provider's
\* answer without an enrichment call and without a change to the index, the
\* file or the table
NothingNewStep ==
    \A r \in SvcRuns :
        (runPc[r] = "fetching" /\ runPc'[r] = "idle" /\ proc' = "up") =>
            /\ enrichCalls' = enrichCalls
            /\ newsStore' = newsStore
            /\ file' = file
            /\ db' = db

\* C29: in a collection run enrichment is invoked only for fetched candidates
\* whose URL is not in the existing set of the category, each candidate is
\* summarized at most once, the run's new entities are exactly the candidates
\* whose summarization succeeded, and a run whose candidates all exist makes
\* no enrichment call and leaves the index and the persisted partition alone.
C29_EnrichOnlyNew == [](EnrichedItems) /\ [][NothingNewStep]_vars

C29_Witness ==
    /\ handed.run # 0
    /\ Len(handed.batch) > 0
    /\ \E i \in 1..Len(handed.items) : handed.items[i].state = "failed"
                                        /\ handed.items[i].summaries = 1
    /\ \E i \in 1..Len(handed.items) : handed.items[i].summaries = 0
    /\ ExistingUrls # {}

\* C30: every collection run, started by the schedule, by startup or by the
\* manual trigger, adds exactly one to newsCollection.totalRuns, so totalRuns
\* equals the number of runs started.
C30_RunCounterExact == totalRuns = runsStarted

-----------------------------------------------------------------------------
(* Claims about the cache middleware in front of the handler, checked under SpecApi *)

\* the key newsApiCacheMiddleware builds for the request of slot q
RequestKey(q) == generateCacheKey("/api/v1/news", NewsKeyParams(apiReq[q].body), apiReq[q].ip)

\* the lookup of the request of slot q was made and answered
LookedUp(q) == apiPc[q] = "done" /\ apiReq[q].fault \notin {"middleware", "get"}

\* a hit is answered with the cached body and the handler has not run; on a
\* miss the handler has run once; the cache holds bodies of 2xx answers only
HitOrOneRun ==
    /\ \A q \in ApiReqs :
            LookedUp(q) =>
                IF Truthy(apiCached[q])
                THEN handlerRuns[q] = 0 /\ apiResp[q].body = apiCached[q]
                ELSE handlerRuns[q] = 1
    /\ \A key \in DOMAIN rcache :
            rcache[key].present => rcache[key].v.t = "o" /\ rcache[key].v.o.kind = "news"
    /\ \A q \in ApiReqs :
            (LookedUp(q) /\ Truthy(apiCached[q])) => apiCached[q].o.kind = "news"

\* the middleware writes the cache only for a 2xx answer of the handler, and
\* then under the key of the request, with the body of the answer
StoresOnly2xx ==
    \A q \in ApiReqs :
        (apiPc[q] = "got" /\ apiPc'[q] = "done" /\ rcache' # rcache) =>
            /\ apiResp'[q].status >= 200 /\ apiResp'[q].status < 300
            /\ rcache'[RequestKey(q)].present
            /\ rcache'[RequestKey(q)].v = apiResp'[q].body
            /\ \A key \in DOMAIN rcache : key # RequestKey(q) => rcache'[key] = rcache[key]

\* C31: a cache hit answers the request with the cached body without invoking
\* the route handler; on a miss the handler is invoked exactly once and its
\* response is stored under the request's key only if its status is 2xx, so a
\* non-2xx response is never served from the cache.
C31_HitShortCircuits == [](HitOrOneRun) /\ [][StoresOnly2xx]_vars

C31_Witness ==
    \E q, p \in ApiReqs :
        /\ LookedUp(q) /\ Truthy(apiCached[q]) /\ handlerRuns[q] = 0
        /\ LookedUp(p) /\ apiResp[p].status = 200 /\ handlerRuns[p] = 1
        /\ RequestKey(p) = RequestKey(q)
        /\ apiCached[q] = apiResp[p].body

\* the request of slot q has arrived and passes the validation of the handler
ValidRequest(q) == apiPc[q] # "idle" /\ ValidationError(apiReq[q].body) = ""

\* C32: two valid requests to POST /api/v1/news of the same caller that map to
\* the same cache key get identical responses from the uncached handler on the
\* same store contents, so serving the cached response of one to the other
\* does not change what the client sees.
C32_SameKeySameResponse ==
    \A q, p \in ApiReqs :
        (ValidRequest(q) /\ ValidRequest(p) /\ RequestKey(q) = RequestKey(p)) =>
            NewsHandler(apiReq[q].body, newsStore, file, now).response
                = NewsHandler(apiReq[p].body, newsStore, file, now).response

-----------------------------------------------------------------------------
(* Claims about the index, the file and the audio artifacts, checked under SpecAudio *)

\* C33: after any sequence of startups, collection runs and audio generations
\* getStoredNews never returns an entity whose collectedAt is older than the
\* 24-hour retention window at the time of the read.
C33_ReadsInsideRetention ==
    \A a \in Range(getStoredNews(newsStore, file, now).articles) :
        a.collectedAt >= now - RetentionHours

\* updateArticleAudioPathLocal has just completed for the request of slot q
UpdateCompletes(q) == reqPc[q] = "synth" /\ reqSynth'[q] = "ok"

\* a collection run has just completed and stored its merged set (a start of
\* the process that refills the index is such a step as well)
RunCompletes ==
    /\ UNCHANGED <<now, audioVars>>
    /\ newsStore' # newsStore
    /\ newsStore'.expires = now + StdTTL

\* C34: in local mode, after every completed collection run and every
\* completed updateArticleAudioPathLocal, the index of the category holds the
\* same entities, with the same audioPath values, as the file of the category.
C34_IndexMatchesFile ==
    [][(mode = "local" /\ (RunCompletes \/ \E q \in Reqs : UpdateCompletes(q)))
            => Range(StoreGet(newsStore', now')) = Range(file'.articles)]_vars

\* C35: whenever generateAudioOnDemand returns a location, in either mode and
\* after any history of generations and uploads for the article, an audio
\* artifact exists at that location: the local mp3, or the uploaded object.
C35_ReturnedLocationExists ==
    [][\A q \in Reqs :
        (reqPc[q] # "done" /\ reqPc'[q] = "done" /\ reqResult'[q].generated)
            => IF reqResult'[q].location = SupabaseUrl(reqId'[q])
               THEN reqId'[q] \in sbObjects'
               ELSE /\ reqResult'[q].location = LocalPath(reqId'[q])
                    /\ audioFiles'[reqId'[q]] # -1
      ]_vars

-----------------------------------------------------------------------------
(* Claims about the manual trigger, checked under SpecService *)

\* C36: triggerNewsCollection returns success = false, and a collection error
\* is recorded, whenever the run it triggered failed, and returns success =
\* true only when the run completed without an unrecoverable error.
C36_TriggerReportsFailure ==
    ended.trigger # "none" =>
        /\ ended.outcome = "error" => (ended.trigger = "failure" /\ ended.errors >= 1)
        /\ ended.trigger = "success" => ended.outcome = "end"

-----------------------------------------------------------------------------
(* Claims about the listener counter, checked under SpecListening *)

\* C39: for any sequence of recordAudioStart and recordAudioEnd calls, in any
\* order and with more ends than starts, currentlyListening is never negative.
C39_ListenersNotNegative == currentlyListening >= 0

\* an odd number of calls has left no listener: an end was recorded when the
\* counter was already zero
C39_Witness ==
    /\ statCalls = 3
    /\ currentlyListening = 0
    /\ listeningMinutes > 0

-----------------------------------------------------------------------------
(* Claims about generateBatchSpeech, checked under SpecBatch *)

\* the positions whose speech request is in flight
SpeechInFlight == {k \in 1..bCount : bState[k] = "inflight"}

\* the last position of the batches before the batch of position k
BeforeBatchOf(k) == ((k - 1) \div 3) * 3

\* C38: generateBatchSpeech never has more than 3 speech requests in flight:
\* the articles are processed in consecutive batches of at most 3, a batch
\* starts only after every request of the previous batch has settled, and the
\* returned map holds exactly the articles whose generation returned a path.
C38_BatchesOfThree ==
    /\ Cardinality(SpeechInFlight) <= 3
    /\ \A k \in 1..bCount :
            bState[k] # "waiting" =>
                \A j \in 1..BeforeBatchOf(k) : bState[j] \in {"ok", "null"}
    /\ \A k \in 1..bCount :
            bState[k] # "waiting" =>
                \A j \in 1..Min(BeforeBatchOf(k) + 3, bCount) : bState[j] # "waiting"
    /\ bPc = "returned" =>
            /\ bReturned = {k \in 1..bCount : bState[k] = "ok"}
            /\ \A k \in 1..bCount : bState[k] \in {"ok", "null"}

C38_Witness ==
    /\ bPc = "returned"
    /\ bCount = MaxArticles
    /\ bState[1] = "null" /\ bState[2] = "ok" /\ bState[bCount] = "ok"
    /\ bReturned # {}

-----------------------------------------------------------------------------
(* Claims about the AudioProvider, checked under SpecPlayer *)

\* C37: in the AudioProvider, for any interleaving of playTrack, pauseTrack,
\* togglePlayPause and hidePlayer (hidePlayer while playTrack still awaits
\* audio.play() included), isPlaying = true implies that a current track is
\* set and the player is visible; after hidePlayer the state is
\* currentTrack = null, isVisible = false, isPlaying = false.
C37_PlayingHasTrack ==
    /\ isPlaying => (currentTrack # NoTrack /\ isVisible)
    /\ lastHide => (currentTrack = NoTrack /\ ~isVisible /\ ~isPlaying)

=============================================================================
